---- MODULE Spec2Model ----
(***************************************************************************)
(* Verification model of grez-lucas/bank-scraper.                          *)
(*                                                                         *)
(* Part I  : the HTTP replay matching engine (testutil.Replayer).          *)
(* Part II : the BBVA login classifier (bbva.DetectLoginError and          *)
(*           BBVAScraper.Login).                                           *)
(*                                                                         *)
(* Specifications                                                          *)
(*   Spec      NewReplayer followed by sequential handler calls, over      *)
(*             every small HAR log and a family of redirect chains.        *)
(*   SpecConc  NewReplayer followed by concurrently running handler calls, *)
(*             each taken one map access / one loop iteration at a time.   *)
(*   SpecLogin one call of BBVAScraper.Login with the hijack router        *)
(*             goroutine running beside it.                                *)
(***************************************************************************)
EXTENDS Integers, Sequences, FiniteSets, TLC

VARIABLES
    har,            \* HARLog.Entries handed to NewReplayer
    opts,           \* the ReplayerOption list handed to NewReplayer
    exactMatches,   \* Replayer.exactMatches: URL -> index into har
    pathMatches,    \* Replayer.pathMatches: scheme+host+path -> index into har
    passthrough,    \* Replayer.passthrough
    rpc,            \* position of NewReplayer: "new", "index", "ready"
    idx,            \* loop variable i of NewReplayer's indexing loop (1-based)
    last,           \* outcome of the most recent sequential handler call
    hs,             \* per goroutine: state of a running handler call
    stats,          \* value returned by the most recent Stats() call
    lpc,            \* position of the Login call
    page,           \* the rod page of the call: "none", "open", "closed"
    router,         \* the hijack router: "none", "running", "stopped"
    statusCode,     \* Login's local statusCode, written by the router goroutine
    submitted,      \* number of clicks on the login button
    html,           \* markup returned by page.HTML()
    detectArg,      \* statusCode as passed to DetectLoginError (-1: not called)
    loginErr,       \* value returned by DetectLoginError
    dashboard,      \* outcome of page.Element(SelectorDashboard)
    session,        \* BBVAScraper.session
    ret,            \* what Login returned: [session, err]
    evt,            \* the request the hijack handler ran for most recently
    submission,     \* status of the latest response to the form submission
                    \* (-1: none since the click)
    ctx,            \* the context.Context handed to Login: "live", "cancelled"
    pin,            \* the parser call under way: [fn, doc]
    ppc,            \* position of the parser call: "idle", "called", "done"
    pret,           \* what the parser call produced
    fin,            \* the page FlattenShadowDOM is called on: its document
                    \* and how page.Eval, json.Unmarshal and page.HTML fare
    fpc,            \* position of the flattening call: "idle", "called",
                    \* "evaluated", "done"
    fret,           \* what the flattening script returned
    fdoc,           \* the live document of the page
    fout            \* what FlattenShadowDOM returned

replayVars == <<har, opts, exactMatches, pathMatches, passthrough, rpc, idx,
                last, hs, stats>>

loginVars == <<lpc, page, router, statusCode, submitted, html, detectArg,
               loginErr, dashboard, session, ret, evt, submission,
               ctx>>

parseVars == <<pin, ppc, pret>>

flatVars == <<fin, fpc, fret, fdoc, fout>>

vars == <<replayVars, loginVars, parseVars, flatVars>>

(***************************************************************************)
(* Bounds of the model.                                                    *)
(***************************************************************************)
MaxEntries == 2     \* longest HAR log drawn from the full entry alphabet
MaxChain   == 12    \* longest redirect chain log (exceeds maxRedirects)
NHandlers  == 2     \* handler goroutines running concurrently in SpecConc
MaxText    == 2     \* longest text of an element of the login page markup
MaxRows    == 2     \* most rows of a transactions page
MaxItems   == 2     \* most list-view containers plus tile-view cards of a page
IntBits    == 24    \* bits of the integers standing for int64
MaxOver    == 1     \* how far beyond the depth ceiling the deepest page reaches

MAX_DEPTH == 100    \* const MAX_DEPTH of flattenShadowDOMJS

(***************************************************************************)
(* URLs.  A URL string is modelled by what url.Parse makes of it: base     *)
(* stands for Scheme + "://" + Host + Path, query for the raw query (0 =   *)
(* none).  BadURL is a string url.Parse rejects; EmptyURL is "".           *)
(***************************************************************************)
URL(b, q) == [base |-> b, query |-> q]
BadURL    == URL(0, 0)
EmptyURL  == URL(-1, 0)

\* url.Parse(u) returns err == nil
Parses(u) == u.base # 0

\* parsed.Scheme + "://" + parsed.Host + parsed.Path
pathKey(u) == u.base

ArbQueries == {0, 1}

\* URLs of the entry alphabet: one path with and without a query, and a
\* second path
ArbURLs == {URL(1, 0), URL(1, 1), URL(2, 0)}

(***************************************************************************)
(* Header names and strings.ToLower on them.                               *)
(***************************************************************************)
ToLower(n) ==
    CASE n \in {"Location", "location", "LOCATION"}   -> "location"
      [] n \in {"Content-Type", "content-type"}       -> "content-type"
      [] n \in {"Content-Length", "content-length"}   -> "content-length"
      [] n \in {"Content-Encoding"}                   -> "content-encoding"
      [] OTHER                                        -> n

Hdr(n, v) == [name |-> n, value |-> v]

(***************************************************************************)
(* base64.StdEncoding.DecodeString on the body texts of the model: "aGk="  *)
(* decodes to "hi", "" to "", anything else is rejected.                   *)
(***************************************************************************)
b64Decode(t) ==
    CASE t = "aGk=" -> [err |-> FALSE, val |-> "hi"]
      [] t = ""     -> [err |-> FALSE, val |-> ""]
      [] OTHER      -> [err |-> TRUE,  val |-> ""]

(***************************************************************************)
(* HAR entries.                                                            *)
(***************************************************************************)
Content(m, t, e) == [MimeType |-> m, Text |-> t, Encoding |-> e]

HAREntry(u, st, hdrs, c) ==
    [url |-> u, Status |-> st, Headers |-> hdrs, Content |-> c]

\* Recorded responses of the entry alphabet
PlainOK     == [Status |-> 200, Headers |-> <<>>,
                Content |-> Content("text/html", "hi", "")]
Redirect(l) == [Status |-> 302, Headers |-> <<Hdr("Location", l)>>,
                Content |-> Content("", "", "")]
RedirectNoLoc == [Status |-> 302, Headers |-> <<>>,
                  Content |-> Content("", "", "")]

ArbResponses == {PlainOK} \cup {Redirect(l) : l \in ArbURLs}

ArbEntries == {HAREntry(u, r.Status, r.Headers, r.Content) :
                   u \in ArbURLs, r \in ArbResponses}

ArbLogs == UNION {[1..n -> ArbEntries] : n \in 0..MaxEntries}

(***************************************************************************)
(* Redirect chain logs: entry k is recorded under URL(k, 0) and redirects  *)
(* to URL(k+1, q); with q = 1 the Location carries a query string that was *)
(* never recorded, so each hop resolves through the coarse index.  The     *)
(* last entry is a non-redirect ("ok200", "err400"), a redirect without    *)
(* Location ("noloc"), a redirect to an unrecorded URL ("missing") or a    *)
(* redirect back to the first entry ("cycle").                             *)
(***************************************************************************)
ChainStatus(k) == CASE k % 3 = 0 -> 300 [] k % 3 = 1 -> 302 [] OTHER -> 399

ChainTails == {"ok200", "err400", "noloc", "missing", "cycle"}

ChainTail(n, q, t) ==
    CASE t = "ok200"   -> PlainOK
      [] t = "err400"  -> [Status |-> 400, Headers |-> <<Hdr("Location", URL(1, q))>>,
                           Content |-> Content("", "", "")]
      [] t = "noloc"   -> RedirectNoLoc
      [] t = "missing" -> Redirect(URL(n + 1, q))
      [] OTHER         -> Redirect(URL(1, q))

ChainLog(n, q, t) ==
    [k \in 1..n |->
        IF k < n
        THEN HAREntry(URL(k, 0), ChainStatus(k),
                      <<Hdr("Location", URL(k + 1, q))>>, Content("", "", ""))
        ELSE LET r == ChainTail(n, q, t)
             IN  HAREntry(URL(n, 0), r.Status, r.Headers, r.Content)]

ChainLogs == {ChainLog(n, q, t) : n \in 1..MaxChain, q \in ArbQueries, t \in ChainTails}

(***************************************************************************)
(* Hand-picked logs for the cases the entry alphabet leaves out: a URL     *)
(* url.Parse rejects, header names in other letter cases, an empty         *)
(* Location value, base64 bodies and the headers the replayer drops.       *)
(***************************************************************************)
SpecialLogs == {
    \* redirect to an entry that only the exact index holds; base64 body
    << HAREntry(URL(1, 0), 301, <<Hdr("location", BadURL)>>, Content("", "", "")),
       HAREntry(BadURL, 200,
                <<Hdr("Content-Length", "2"), Hdr("content-type", "text/plain")>>,
                Content("text/html", "aGk=", "base64")) >>,
    \* the first Location header is empty: the loop stops at the redirect
    << HAREntry(URL(1, 1), 302,
                <<Hdr("LOCATION", EmptyURL), Hdr("Location", URL(2, 0))>>,
                Content("", "", "")),
       HAREntry(URL(2, 0), 200, <<>>, Content("text/html", "hi", "")) >>,
    \* body flagged base64 that does not decode; dropped headers
    << HAREntry(URL(2, 1), 200,
                <<Hdr("Content-Encoding", "gzip"), Hdr("X-Frame", "deny")>>,
                Content("application/json", "hi", "base64")),
       HAREntry(URL(2, 1), 200, <<Hdr("X-Frame", "deny")>>,
                Content("", "aGk=", "")) >> }

Logs == ArbLogs \cup ChainLogs \cup SpecialLogs

(***************************************************************************)
(* Replayer options.                                                       *)
(***************************************************************************)
WithPassthrough(enabled) == [opt |-> "passthrough", enabled |-> enabled]

OptLists == {<<>>, <<WithPassthrough(TRUE)>>, <<WithPassthrough(FALSE)>>}

\* for _, opt := range opts { opt(r) } applied to passthrough: false
RECURSIVE applyOpts(_, _)
applyOpts(os, p) ==
    IF os = <<>> THEN p
    ELSE applyOpts(Tail(os), IF Head(os).opt = "passthrough" THEN Head(os).enabled ELSE p)

(***************************************************************************)
(* Go maps as functions; m[k] = v.                                         *)
(***************************************************************************)
mapPut(m, k, v) == [x \in DOMAIN m \cup {k} |-> IF x = k THEN v ELSE m[x]]

(***************************************************************************)
(* NewReplayer.                                                            *)
(***************************************************************************)
\* r := &Replayer{...}; for _, opt := range opts { opt(r) }
NewReplayer ==
    /\ rpc = "new"
    /\ exactMatches' = <<>>
    /\ pathMatches' = <<>>
    /\ passthrough' = applyOpts(opts, FALSE)
    /\ idx' = 1
    /\ rpc' = IF Len(har) = 0 THEN "ready" ELSE "index"
    /\ UNCHANGED <<har, opts, last, hs, stats>>
    /\ UNCHANGED <<loginVars, parseVars, flatVars>>

\* Mutant: the exact index keeps the first entry recorded under a URL
indexExact_keepFirst(m, i) ==
    IF har[i].url \in DOMAIN m THEN m ELSE mapPut(m, har[i].url, i)

\* r.exactMatches[reqURL] = entry
indexExact(m, i) == mapPut(m, har[i].url, i)

\* Mutant: the coarse index keeps the latest entry of a key
indexPath_overwrite(m, i) ==
    IF Parses(har[i].url) THEN mapPut(m, pathKey(har[i].url), i) ELSE m

\* if parsed, err := url.Parse(reqURL); err == nil { ... first occurrence only }
indexPath(m, i) ==
    IF Parses(har[i].url) /\ pathKey(har[i].url) \notin DOMAIN m
    THEN mapPut(m, pathKey(har[i].url), i)
    ELSE m

\* one iteration of: for i := range har.Entries { ... }; return r after the last
IndexEntry ==
    /\ rpc = "index"
    /\ idx <= Len(har)
    /\ exactMatches' = indexExact(exactMatches, idx)
    /\ pathMatches' = indexPath(pathMatches, idx)
    /\ idx' = idx + 1
    /\ rpc' = IF idx = Len(har) THEN "ready" ELSE "index"
    /\ UNCHANGED <<har, opts, passthrough, last, hs, stats>>
    /\ UNCHANGED <<loginVars, parseVars, flatVars>>

(***************************************************************************)
(* The handler returned by Middleware.                                     *)
(***************************************************************************)
NotFound == [found |-> FALSE, entry |-> 0]
Found(i) == [found |-> TRUE, entry |-> i]

\* Mutant: the coarse index is consulted before the exact one
lookup_pathFirst(u) ==
    IF Parses(u) /\ pathKey(u) \in DOMAIN pathMatches
    THEN Found(pathMatches[pathKey(u)])
    ELSE IF u \in DOMAIN exactMatches THEN Found(exactMatches[u])
         ELSE NotFound

\* exact match first, then the path-only match (Middleware and followRedirects)
lookup(u) ==
    IF u \in DOMAIN exactMatches THEN Found(exactMatches[u])
    ELSE IF Parses(u) /\ pathKey(u) \in DOMAIN pathMatches
         THEN Found(pathMatches[pathKey(u)])
         ELSE NotFound

maxRedirects == 10

isRedirect(st) == ~(st < 300 \/ st >= 400)

\* value of the first header whose lower-cased name is "location", "" if none
RECURSIVE findLocation(_)
findLocation(hdrs) ==
    IF hdrs = <<>> THEN EmptyURL
    ELSE IF ToLower(Head(hdrs).name) = "location" THEN Head(hdrs).value
         ELSE findLocation(Tail(hdrs))

\* body of followRedirects' loop for the entry `current`: either return it
\* (done) or continue with the target
redirectStep(current) ==
    LET resp     == har[current]
        location == findLocation(resp.Headers)
        target   == lookup(location)
    IN  IF ~isRedirect(resp.Status) THEN [done |-> TRUE, entry |-> current]
        ELSE IF location = EmptyURL THEN [done |-> TRUE, entry |-> current]
        ELSE IF ~target.found THEN [done |-> TRUE, entry |-> current]
        ELSE [done |-> FALSE, entry |-> target.entry]

RECURSIVE followFrom(_, _)
\* Mutant: the loop bound is tested with <=, so an eleventh hop is taken
followFrom_eleven(current, i) ==
    IF ~(i <= maxRedirects) THEN current
    ELSE LET s == redirectStep(current)
         IN  IF s.done THEN s.entry ELSE followFrom(s.entry, i + 1)

followFrom(current, i) ==
    IF ~(i < maxRedirects) THEN current
    ELSE LET s == redirectStep(current)
         IN  IF s.done THEN s.entry ELSE followFrom(s.entry, i + 1)

\* Mutant: the matched entry is served as recorded, redirects are not followed
followRedirects_none(entry) == entry

followRedirects(entry) == followFrom(entry, 0)

Payload(code, hdrs, body) ==
    [ResponseCode |-> code, ResponseHeaders |-> hdrs, Body |-> body]

\* headers kept by serveRecordedResponse
keptHeader(h) ==
    ToLower(h.name) \notin {"content-encoding", "content-length", "location"}

hasContentType(hdrs) == \E k \in 1..Len(hdrs) : ToLower(hdrs[k].name) = "content-type"

\* the payload serveRecordedResponse writes for har[e] (after followRedirects)
recordedPayload(e) ==
    LET resp == har[e]
        dec  == b64Decode(resp.Content.Text)
        body == IF resp.Content.Encoding = "base64" /\ ~dec.err
                THEN dec.val ELSE resp.Content.Text
        kept == SelectSeq(resp.Headers, keptHeader)
        hdrs == IF ~hasContentType(kept) /\ resp.Content.MimeType # ""
                THEN Append(kept, Hdr("Content-Type", resp.Content.MimeType))
                ELSE kept
    IN  Payload(resp.Status, hdrs, body)

serveRecordedResponse(entry) == recordedPayload(followRedirects(entry))

serveNotFound ==
    Payload(404, <<Hdr("Content-Type", "application/json")>>,
            "{\"error\": \"no recording found for URL\"}")

\* What the live network may answer to a request that is passed through
LiveResponses == {Payload(200, <<>>, "live"), Payload(500, <<>>, "")}

Outcome(u, kind, matched, served, payload) ==
    [url |-> u, kind |-> kind, matched |-> matched, served |-> served,
     payload |-> payload]

NoOutcome == Outcome(EmptyURL, "none", 0, 0, Payload(0, <<>>, ""))

\* Mutant: a total miss always goes to the network
unmatched_passAlways(u, live) == Outcome(u, "network", 0, 0, live)

\* outcome of a total miss
unmatched(u, live) ==
    IF passthrough THEN Outcome(u, "network", 0, 0, live)
    ELSE Outcome(u, "notfound", 0, 0, serveNotFound)

\* the whole handler for a request to reqURL; `live` is what the network
\* would answer
Middleware(reqURL, live) ==
    LET m == lookup(reqURL)
    IN  IF ~m.found THEN unmatched(reqURL, live)
        ELSE Outcome(reqURL, "recorded", m.entry, followRedirects(m.entry),
                     serveRecordedResponse(m.entry))

\* the answers of the network that the handler for u can observe
liveFor(u) ==
    IF passthrough /\ ~lookup(u).found THEN LiveResponses
    ELSE {Payload(0, <<>>, "")}

\* URLs the browser may request: ctx.Request.URL() always parses
ReqURLs == ArbURLs \cup {URL(2, 1)}
           \cup {har[i].url : i \in {k \in 1..Len(har) : Parses(har[k].url)}}

Handle ==
    /\ rpc = "ready"
    /\ \E u \in ReqURLs : \E live \in liveFor(u) :
          last' = Middleware(u, live)
    /\ UNCHANGED <<har, opts, exactMatches, pathMatches, passthrough, rpc, idx,
                   hs, stats>>
    /\ UNCHANGED <<loginVars, parseVars, flatVars>>

(***************************************************************************)
(* Part II.  Login classification.                                         *)
(*                                                                         *)
(* Texts are sequences over a space and a letter; the login page markup is *)
(* given by the texts of the three elements DetectLoginError selects (an   *)
(* absent element and an empty one both read as the empty text).           *)
(***************************************************************************)
Chars == {" ", "x"}
Texts == UNION {[1..n -> Chars] : n \in 0..MaxText}

\* unicode.IsSpace, for the characters of the model
IsSpace(c) == c \in {" ", "\t", "\n", "\r"}

\* strings.TrimSpace
RECURSIVE trimLeft(_)
trimLeft(t) == IF t # <<>> /\ IsSpace(Head(t)) THEN trimLeft(Tail(t)) ELSE t

RECURSIVE trimRight(_)
trimRight(t) ==
    IF t # <<>> /\ IsSpace(t[Len(t)]) THEN trimRight(SubSeq(t, 1, Len(t) - 1)) ELSE t

TrimSpace(t) == trimRight(trimLeft(t))

\* text of SelectorLoginErrorCode, SelectorLoginErrorSpan, SelectorLoginErrorMessage
Markup(c, sp, ti) == [code |-> c, span |-> sp, title |-> ti]
Markups == {Markup(c, sp, ti) : c \in Texts, sp \in Texts, ti \in Texts}
NoMarkup == Markup(<<>>, <<>>, <<>>)

StatusForbidden          == 403
StatusTooManyRequests    == 429
StatusServiceUnavailable == 503

\* status codes the router may see for a response
Statuses == {200, 302, 404, 500, StatusForbidden, StatusTooManyRequests,
             StatusServiceUnavailable}

LoginErrorInfo(c, m, st) == [nil |-> FALSE, Code |-> c, Message |-> m, HTTPStatus |-> st]
NilLoginError == [nil |-> TRUE, Code |-> <<>>, Message |-> <<>>, HTTPStatus |-> 0]

MsgUnavailable == <<"Bank service temporarily unavailable or rate limited">>
MsgForbidden   == <<"Access forbidden - possible bot detection">>

\* Mutant: the title heading is not consulted when the error span is empty
DetectLoginError_noFallback(h, st) ==
    IF st \in {StatusServiceUnavailable, StatusTooManyRequests}
    THEN LoginErrorInfo(<<>>, MsgUnavailable, st)
    ELSE IF st = StatusForbidden
    THEN LoginErrorInfo(<<>>, MsgForbidden, st)
    ELSE LET code == TrimSpace(h.code)
             msg  == TrimSpace(h.span)
         IN  IF code = <<>> /\ msg = <<>> THEN NilLoginError
             ELSE LoginErrorInfo(code, msg, st)

DetectLoginError(h, st) ==
    IF st \in {StatusServiceUnavailable, StatusTooManyRequests}
    THEN LoginErrorInfo(<<>>, MsgUnavailable, st)
    ELSE IF st = StatusForbidden
    THEN LoginErrorInfo(<<>>, MsgForbidden, st)
    ELSE LET code == TrimSpace(h.code)
             span == TrimSpace(h.span)
             msg  == IF span = <<>> THEN TrimSpace(h.title) ELSE span
         IN  IF code = <<>> /\ msg = <<>> THEN NilLoginError
             ELSE LoginErrorInfo(code, msg, st)

(***************************************************************************)
(* Errors and sessions.                                                    *)
(***************************************************************************)
BankBBVA == "BBVA"

ScraperError(cause, details) ==
    [type |-> "ScraperError", BankCode |-> BankBBVA, Operation |-> "Login",
     Cause |-> cause, Details |-> details]
\* fmt.Errorf: an error that is no ScraperError
PlainError(details) ==
    [type |-> "error", BankCode |-> "", Operation |-> "", Cause |-> "",
     Details |-> details]
NilError == [type |-> "nil", BankCode |-> "", Operation |-> "", Cause |-> "",
             Details |-> ""]

\* time.Duration of a session and readings of time.Now(), in minutes
bbvaSessionTimeout == 10
Times == {1, 2}

NilSession == [nil |-> TRUE, ID |-> <<>>, BankCode |-> "", ExpiresAt |-> 0]

\* Mutant: the session carries the zero time as its expiry
NewSession_zeroExpiry(now) ==
    [nil |-> FALSE, ID |-> <<"bbva-", now>>, BankCode |-> BankBBVA, ExpiresAt |-> 0]

\* &bank.Session{ID: generateSessionID(), BankCode: bank.BankBBVA,
\*               ExpiresAt: time.Now().Add(bbvaSessionTimeout)}
NewSession(now) ==
    [nil |-> FALSE, ID |-> <<"bbva-", now>>, BankCode |-> BankBBVA,
     ExpiresAt |-> now + bbvaSessionTimeout]

\* the session an earlier call stored
OldSession == NewSession(0)

\* what Login returned; why names the failure of the page operation that
\* ended the call ("" when none did)
NoReturn == [returned |-> FALSE, session |-> NilSession, err |-> NilError, why |-> ""]
Return(sess, err, why) == [returned |-> TRUE, session |-> sess, err |-> err, why |-> why]

\* Mutant: every result of DetectLoginError counts as invalid credentials
loginCause_credsOnly(info) == "ErrInvalidCredentials"

\* cause chosen for a non-nil result of DetectLoginError
loginCause(info) ==
    IF info.HTTPStatus = StatusForbidden THEN "ErrBotDetection"
    ELSE "ErrInvalidCredentials"

\* Mutant: a missing dashboard marker is reported as invalid credentials
landingError_creds ==
    ScraperError("ErrInvalidCredentials", "login completed but landing page unexpected")

\* error returned when the landing page lacks the dashboard marker
landingError ==
    ScraperError("ErrUnknown", "login completed but landing page unexpected")

\* Mutant: router.Stop() is called on the success path only
loginReturn_stopOnSuccess(sess, err, why) ==
    /\ ret' = Return(sess, err, why)
    /\ lpc' = "done"
    /\ router' = IF err = NilError THEN "stopped" ELSE router
    /\ page' = "closed"

\* a return statement of Login taken after the page was created: the
\* deferred router.Stop() and page.Close() run
loginReturn(sess, err, why) ==
    /\ ret' = Return(sess, err, why)
    /\ lpc' = "done"
    /\ router' = "stopped"
    /\ page' = "closed"

\* how a blocking page operation may fail
StepErrs == {"timeout", "other"}

\* a blocking step that either succeeds and moves to `next` or fails with err
loginStep(at, next, err) ==
    /\ lpc = at
    /\ \/ /\ lpc' = next
          /\ UNCHANGED <<page, router, ret>>
       \/ \E why \in StepErrs : loginReturn(NilSession, err, why)

\* page, err := s.browser.Page(...); page.HijackRequests(); go router.Run()
LoginCreatePage ==
    /\ lpc = "start"
    /\ \/ /\ page' = "open"
          /\ router' = "running"
          /\ lpc' = "waitLoad"
          /\ ret' = ret
       \/ /\ \E why \in StepErrs :
                ret' = Return(NilSession,
                              ScraperError("ErrBankUnavailable", "err.Error()"), why)
          /\ lpc' = "done"
          /\ UNCHANGED <<page, router>>
    /\ UNCHANGED <<statusCode, submitted, html, detectArg, loginErr, dashboard,
                   session>>
    /\ UNCHANGED <<replayVars, parseVars, flatVars>>
    /\ UNCHANGED <<evt, submission>>
    /\ ctx' = ctx

\* the handler added to the router, run for one intercepted request: only a
\* URL whose path contains dfServletPath sets statusCode
\* Mutant: the handler stores the status of every response
capture_always(isServlet, code, cur) == code

\* if ctx.Response != nil && strings.Contains(path, dfServletPath) {
\*     statusCode = ctx.Response.Payload().ResponseCode }
capture(isServlet, code, cur) == IF isServlet THEN code ELSE cur

NoEvent == [servlet |-> FALSE]

RouterHandle ==
    /\ router = "running"
    /\ \E isServlet \in BOOLEAN, code \in Statuses :
          /\ statusCode' = capture(isServlet, code, statusCode)
          /\ evt' = [servlet |-> isServlet]
          /\ submission' = IF isServlet THEN code ELSE submission
    /\ UNCHANGED <<lpc, page, router, submitted, html, detectArg, loginErr,
                   dashboard, session, ret>>
    /\ UNCHANGED <<replayVars, parseVars, flatVars>>
    /\ ctx' = ctx

LoginWaitLoad ==
    /\ loginStep("waitLoad", "fill", PlainError("login page load failed"))
    /\ UNCHANGED <<statusCode, submitted, html, detectArg, loginErr, dashboard,
                   session>>
    /\ UNCHANGED <<replayVars, parseVars, flatVars>>
    /\ UNCHANGED <<evt, submission>>
    /\ ctx' = ctx

LoginFillForm ==
    /\ \E d \in {"company input not found", "failed to type company code",
                 "user input not found", "failed to type user code",
                 "password input not found", "failed to type password"} :
          loginStep("fill", "reset", PlainError(d))
    /\ UNCHANGED <<statusCode, submitted, html, detectArg, loginErr, dashboard,
                   session>>
    /\ UNCHANGED <<replayVars, parseVars, flatVars>>
    /\ UNCHANGED <<evt, submission>>
    /\ ctx' = ctx

\* statusCode = 0 // Reset before submission
LoginResetStatus ==
    /\ lpc = "reset"
    /\ statusCode' = 0
    /\ lpc' = "button"
    /\ UNCHANGED <<page, router, submitted, html, detectArg, loginErr,
                   dashboard, session, ret>>
    /\ UNCHANGED <<replayVars, parseVars, flatVars>>
    /\ UNCHANGED <<evt, submission>>
    /\ ctx' = ctx

LoginFindButton ==
    /\ loginStep("button", "click",
                 ScraperError("ErrBankUnavailable", "login button not found"))
    /\ UNCHANGED <<statusCode, submitted, html, detectArg, loginErr, dashboard,
                   session>>
    /\ UNCHANGED <<replayVars, parseVars, flatVars>>
    /\ UNCHANGED <<evt, submission>>
    /\ ctx' = ctx

LoginClick ==
    /\ loginStep("click", "postLoad",
                 ScraperError("ErrBankUnavailable", "failed to click login"))
    /\ submitted' = IF lpc' = "postLoad" THEN submitted + 1 ELSE submitted
    /\ UNCHANGED <<statusCode, html, detectArg, loginErr, dashboard, session>>
    /\ UNCHANGED <<replayVars, parseVars, flatVars>>
    /\ submission' = IF lpc' = "postLoad" THEN -1 ELSE submission
    /\ evt' = evt
    /\ ctx' = ctx

LoginPostLoad ==
    /\ loginStep("postLoad", "html",
                 ScraperError("ErrBankUnavailable", "post-login load failed"))
    /\ UNCHANGED <<statusCode, submitted, html, detectArg, loginErr, dashboard,
                   session>>
    /\ UNCHANGED <<replayVars, parseVars, flatVars>>
    /\ UNCHANGED <<evt, submission>>
    /\ ctx' = ctx

\* html, err := page.HTML()
LoginHTML ==
    /\ loginStep("html", "detect",
                 ScraperError("ErrUnknown", "failed to get page HTML"))
    /\ IF lpc' = "detect" THEN html' \in Markups ELSE html' = html
    /\ UNCHANGED <<statusCode, submitted, detectArg, loginErr, dashboard, session>>
    /\ UNCHANGED <<replayVars, parseVars, flatVars>>
    /\ UNCHANGED <<evt, submission>>
    /\ ctx' = ctx

\* Mutant: a rejected submission is tried once more
LoginDetect_retry ==
    /\ lpc = "detect"
    /\ detectArg' = statusCode
    /\ loginErr' = DetectLoginError(html, statusCode)
    /\ IF loginErr'.nil
       THEN lpc' = "landing" /\ UNCHANGED <<page, router, ret>>
       ELSE IF submitted < 2
       THEN lpc' = "reset" /\ UNCHANGED <<page, router, ret>>
       ELSE loginReturn(NilSession,
                        ScraperError(loginCause(loginErr'), "loginErr.Error()"), "")
    /\ UNCHANGED <<statusCode, submitted, html, dashboard, session>>
    /\ UNCHANGED <<replayVars, parseVars, flatVars>>
    /\ UNCHANGED <<evt, submission>>
    /\ ctx' = ctx

\* if loginErr := DetectLoginError(html, statusCode); loginErr != nil { ... }
LoginDetect ==
    /\ lpc = "detect"
    /\ detectArg' = statusCode
    /\ loginErr' = DetectLoginError(html, statusCode)
    /\ IF loginErr'.nil
       THEN lpc' = "landing" /\ UNCHANGED <<page, router, ret>>
       ELSE loginReturn(NilSession,
                        ScraperError(loginCause(loginErr'), "loginErr.Error()"), "")
    /\ UNCHANGED <<statusCode, submitted, html, dashboard, session>>
    /\ UNCHANGED <<replayVars, parseVars, flatVars>>
    /\ UNCHANGED <<evt, submission>>
    /\ ctx' = ctx

\* Mutant: the session is created whether or not the dashboard marker is found
LoginLanding_noMarker ==
    /\ lpc = "landing"
    /\ \/ /\ dashboard' \in {"absent", "present"}
          /\ \E now \in Times :
                /\ loginReturn(NewSession(now), NilError, "")
                /\ session' = NewSession(now)
       \/ /\ dashboard' = dashboard
          /\ lpc' = "panic"
          /\ router' = "stopped"
          /\ page' = "closed"
          /\ UNCHANGED <<ret, session>>
    /\ UNCHANGED <<statusCode, submitted, html, detectArg, loginErr>>
    /\ UNCHANGED <<replayVars, parseVars, flatVars>>
    /\ UNCHANGED <<evt, submission>>
    /\ ctx' = ctx

\* if !s.isLoginSuccessful(page) { ... }; s.session = session; return session, nil
\* MustWaitDOMStable panics when the wait fails; the deferred calls still run
LoginLanding ==
    /\ lpc = "landing"
    /\ \/ /\ dashboard' = "absent"
          /\ loginReturn(NilSession, landingError, "")
          /\ session' = session
       \/ /\ dashboard' = "present"
          /\ \E now \in Times :
                /\ loginReturn(NewSession(now), NilError, "")
                /\ session' = NewSession(now)
       \/ /\ dashboard' = dashboard
          /\ lpc' = "panic"
          /\ router' = "stopped"
          /\ page' = "closed"
          /\ UNCHANGED <<ret, session>>
    /\ UNCHANGED <<statusCode, submitted, html, detectArg, loginErr>>
    /\ UNCHANGED <<replayVars, parseVars, flatVars>>
    /\ UNCHANGED <<evt, submission>>
    /\ ctx' = ctx

\* the caller cancels ctx while Login waits in a page operation; no
\* statement of Login reads ctx
CancelCtx ==
    /\ ctx = "live"
    /\ lpc \in {"waitLoad", "fill", "button", "click", "postLoad", "html", "landing"}
    /\ ctx' = "cancelled"
    /\ UNCHANGED <<lpc, page, router, statusCode, submitted, html, detectArg,
                   loginErr, dashboard, session, ret, evt, submission>>
    /\ UNCHANGED <<replayVars, parseVars, flatVars>>

InitLogin ==
    /\ lpc = "start"
    /\ page = "none"
    /\ router = "none"
    /\ statusCode = 0
    /\ submitted = 0
    /\ html = NoMarkup
    /\ detectArg = -1
    /\ loginErr = NilLoginError
    /\ dashboard = "unchecked"
    /\ session \in {NilSession, OldSession}
    /\ ret = NoReturn
    /\ evt = NoEvent
    /\ submission = -1
    /\ ctx = "live"

NextLogin ==
    \/ LoginCreatePage
    \/ RouterHandle
    \/ LoginWaitLoad
    \/ LoginFillForm
    \/ LoginResetStatus
    \/ LoginFindButton
    \/ LoginClick
    \/ LoginPostLoad
    \/ LoginHTML
    \/ LoginDetect
    \/ LoginLanding
    \/ CancelCtx

(***************************************************************************)
(* Part III.  The BBVA page parsers (bbva.ParseTransactions and            *)
(* bbva.ParseAccountBalances).                                             *)
(*                                                                         *)
(* A page is modelled by what the parser's goquery selectors find in it.   *)
(* A text is a sequence of symbols: an amount is spelled character by      *)
(* character, a currency code, a currency symbol, an account id or a state *)
(* value is one symbol.  goquery.NewDocumentFromReader does not fail on a  *)
(* string, so its error branch is left out.                                *)
(***************************************************************************)

\* Selection.Attr: (val, exists); Selection.AttrOr
Attr(v) == [found |-> TRUE, val |-> v]
NoAttr == [found |-> FALSE, val |-> <<>>]
AttrOr(a, def) == IF a.found THEN a.val ELSE def

\* errors: the sentinel an error wraps ("" when none) and the indexes its
\* text names
NilErr == [nil |-> TRUE, wraps |-> "", at |-> <<>>]
Errorf(wraps, at) == [nil |-> FALSE, wraps |-> wraps, at |-> at]

(***************************************************************************)
(* ParseSpanishAmount.  A text is a sequence of characters; the words      *)
(* "NaN" and "Inf" stand as one symbol each.  The texts of the model have  *)
(* no exponent and at most three decimal places, and a third place of 5    *)
(* only where the amount is a multiple of 1/8: for these floatVal * 100 is *)
(* the exact product or too close to it for math.Round to tell.            *)
(***************************************************************************)
Digits == {"0", "1", "2", "3", "4", "5", "6", "7", "8", "9"}

DigitVal(c) ==
    CASE c = "0" -> 0 [] c = "1" -> 1 [] c = "2" -> 2 [] c = "3" -> 3
      [] c = "4" -> 4 [] c = "5" -> 5 [] c = "6" -> 6 [] c = "7" -> 7
      [] c = "8" -> 8 [] c = "9" -> 9

\* strings.NewReplacer(",", "", " ", "").Replace(s)
cleanAmount(s) == SelectSeq(s, LAMBDA c : c # "," /\ c # " ")

RECURSIVE digitsVal(_)
digitsVal(ds) ==
    IF ds = <<>> THEN 0
    ELSE 10 * digitsVal(SubSeq(ds, 1, Len(ds) - 1)) + DigitVal(ds[Len(ds)])

\* int64 is modelled by two's complement integers of IntBits bits
MinInt64 == 0 - 2^(IntBits - 1)
MaxInt64 == 2^(IntBits - 1) - 1

\* the int64 a result of integer arithmetic is stored as
wrap64(x) == ((x - MinInt64) % 2^IntBits) + MinInt64

\* int64(f) for a float64 f that no int64 holds ("NaN", "+Inf" and beyond
\* MaxInt64, "-Inf" and below MinInt64).  The language leaves the value to
\* the implementation: the amd64 build gives MinInt64 whatever f is, the
\* arm64 build the closest int64 and 0 for NaN.  pin.build is the build
\* the call runs on.
Builds == {"amd64", "arm64"}

int64OfUnrepresentable(f) ==
    IF pin.build = "amd64" THEN MinInt64
    ELSE CASE f = "NaN"  -> 0
           [] f = "+Inf" -> MaxInt64
           [] f = "-Inf" -> MinInt64

\* func ParseSpanishAmount: strconv.ParseFloat takes an optional sign, then
\* digits with at most one point, or inf, or (unsigned) nan; the amount is
\* int64(math.Round(floatVal * 100)), math.Round rounding a half away from
\* zero
ParseSpanishAmount(s) ==
    LET cleanStr == cleanAmount(s)
        signed   == cleanStr # <<>> /\ cleanStr[1] \in {"-", "+"}
        negative == cleanStr # <<>> /\ cleanStr[1] = "-"
        body     == IF signed THEN Tail(cleanStr) ELSE cleanStr
        points   == {k \in 1..Len(body) : body[k] = "."}
        wellFormed ==
            /\ \A k \in 1..Len(body) : body[k] \in Digits \cup {"."}
            /\ Cardinality(points) <= 1
            /\ \E k \in 1..Len(body) : body[k] \in Digits
        p        == IF points = {} THEN Len(body) + 1 ELSE CHOOSE k \in points : TRUE
        whole    == SubSeq(body, 1, p - 1)
        frac     == SubSeq(body, p + 1, Len(body))
        digit(k) == IF k <= Len(frac) THEN DigitVal(frac[k]) ELSE 0
        cents    == 100 * digitsVal(whole) + 10 * digit(1) + digit(2)
                      + (IF digit(3) >= 5 THEN 1 ELSE 0)
        rounded  == IF negative THEN 0 - cents ELSE cents
    IN  IF cleanStr = <<"NaN">> THEN
            [err |-> NilErr, val |-> int64OfUnrepresentable("NaN")]
        ELSE IF body = <<"Inf">> THEN
            [err |-> NilErr,
             val |-> int64OfUnrepresentable(IF negative THEN "-Inf" ELSE "+Inf")]
        ELSE IF ~wellFormed THEN
            [err |-> Errorf("strconv.ErrSyntax", <<>>), val |-> 0]
        ELSE IF rounded > MaxInt64 THEN
            [err |-> NilErr, val |-> int64OfUnrepresentable("+Inf")]
        ELSE IF rounded < MinInt64 THEN
            [err |-> NilErr, val |-> int64OfUnrepresentable("-Inf")]
        ELSE [err |-> NilErr, val |-> rounded]

(***************************************************************************)
(* ParseBankDate: time.Parse with BBVADateLayout = "02-01-2006".           *)
(***************************************************************************)
\* a time.Time: a date, a time of day and a location
Date(year, month, day, hour, min, sec, loc) ==
    [year |-> year, month |-> month, day |-> day, hour |-> hour, min |-> min,
     sec |-> sec, loc |-> loc]

\* time.Time{}
ZeroTime == Date(1, 1, 1, 0, 0, 0, "UTC")

isLeap(year) == year % 4 = 0 /\ (year % 100 # 0 \/ year % 400 = 0)

\* time.daysIn
daysIn(month, year) ==
    IF month = 2 THEN (IF isLeap(year) THEN 29 ELSE 28)
    ELSE IF month \in {4, 6, 9, 11} THEN 30
    ELSE 31

\* getnum(value, fixed = true) and the four digits of stdLongYear: the
\* first n characters read as a number, if the text has them and they are
\* digits
leadingNum(value, n) ==
    IF Len(value) >= n /\ \A k \in 1..n : value[k] \in Digits
    THEN [ok |-> TRUE, n |-> digitsVal(SubSeq(value, 1, n)),
          rest |-> SubSeq(value, n + 1, Len(value))]
    ELSE [ok |-> FALSE, n |-> 0, rest |-> value]

\* skip(value, "-"): the literal text of the layout
skipHyphen(value) ==
    IF value # <<>> /\ Head(value) = "-"
    THEN [ok |-> TRUE, rest |-> Tail(value)]
    ELSE [ok |-> FALSE, rest |-> value]

DateErr(what) == [err |-> Errorf(what, <<>>), t |-> ZeroTime]

\* time.Parse("02-01-2006", value): day, month and year are read off in the
\* order of the layout, nothing may follow the year, and the month and the
\* day are checked against the calendar
timeParse(value) ==
    LET day   == leadingNum(value, 2)
        sep1  == skipHyphen(day.rest)
        month == leadingNum(sep1.rest, 2)
        sep2  == skipHyphen(month.rest)
        year  == leadingNum(sep2.rest, 4)
    IN  IF ~day.ok \/ ~sep1.ok \/ ~month.ok THEN DateErr("time.ParseError")
        ELSE IF ~sep2.ok \/ ~year.ok THEN DateErr("time.ParseError")
        ELSE IF year.rest # <<>> THEN DateErr("time.ParseError: extra text")
        ELSE IF month.n <= 0 \/ 12 < month.n
        THEN DateErr("time.ParseError: month out of range")
        ELSE IF day.n < 1 \/ day.n > daysIn(month.n, year.n)
        THEN DateErr("time.ParseError: day out of range")
        ELSE [err |-> NilErr, t |-> Date(year.n, month.n, day.n, 0, 0, 0, "UTC")]

\* ParseBankDate handing the text to time.Parse as it is
ParseBankDate_untrimmed(s) == timeParse(s)

\* func ParseBankDate
ParseBankDate(s) == timeParse(TrimSpace(s))

(***************************************************************************)
(* Transactions page.                                                      *)
(***************************************************************************)
\* what doc.Find(SelectorTransactionsTable) and doc.Find(SelectorTransactionRow)
\* find: whether the container exists, its state attribute, and the rows
TxnDoc(t, st, rows) == [table |-> t, state |-> st, rows |-> rows]

TxnRow(importe) == [importe |-> importe]

BBVARow(ndoc, importe) == [NDoc |-> ndoc, Importe |-> importe]

\* Mutant: a raw amount of zero counts as positive
IsPositiveImport_nonNegative(r) == r.Importe >= 0

\* func (r *BBVARow) IsPositiveImport()
IsPositiveImport(r) == r.Importe > 0

\* func (r *BBVARow) ToTransaction()
ToTransaction(r) ==
    IF IsPositiveImport(r)
    THEN [ID |-> r.NDoc, Amount |-> r.Importe, Type |-> "CREDIT"]
    ELSE [ID |-> r.NDoc, Amount |-> wrap64(0 - r.Importe), Type |-> "DEBIT"]

\* func parseTransactionRow: panic("fix me")
parseTransactionRow(s) ==
    [panic |-> TRUE, err |-> NilErr, row |-> BBVARow(<<>>, 0)]

\* Mutant: any state attribute counts as the no-movements state
hasNoMovements_anyState(doc) ==
    IF ~doc.table THEN FALSE ELSE doc.state.found

hasNoMovements(doc) ==
    IF ~doc.table THEN FALSE
    ELSE IF ~doc.state.found THEN FALSE
    ELSE doc.state.val = <<"noresults">>

\* txnRows.Each(func(i, s) {...}) from row i on (1-based); parsed counts the
\* rows handed to parseTransactionRow; a panic leaves the loop
RECURSIVE eachTxnRow(_, _, _)
eachTxnRow(rows, i, st) ==
    IF i > Len(rows) \/ st.panic THEN st
    ELSE IF ~st.parseErr.nil THEN eachTxnRow(rows, i + 1, st)
    ELSE LET r == parseTransactionRow(rows[i])
             called == [st EXCEPT !.parsed = @ + 1]
         IN  IF r.panic THEN [called EXCEPT !.panic = TRUE]
             ELSE IF ~r.err.nil
             THEN eachTxnRow(rows, i + 1,
                      [called EXCEPT !.parseErr = Errorf(r.err.wraps, <<i - 1>>)])
             ELSE eachTxnRow(rows, i + 1,
                      [called EXCEPT !.transactions = Append(@, ToTransaction(r.row))])

\* what a parser call produced: a return of (list, err), where isNil tells a
\* nil slice from an empty one, or a panic; trace holds what the call did
Returned(isNil, list, err, trace) ==
    [kind |-> "return", isNil |-> isNil, list |-> list, err |-> err, trace |-> trace]
Panicked(trace) ==
    [kind |-> "panic", isNil |-> TRUE, list |-> <<>>, err |-> NilErr, trace |-> trace]
NoResult == [kind |-> "none", isNil |-> TRUE, list |-> <<>>, err |-> NilErr,
             trace |-> <<>>]

TxnTrace(noMovements, parsed) == [noMovements |-> noMovements, parsed |-> parsed]

ParseTransactions(doc) ==
    IF hasNoMovements(doc)
    THEN Returned(FALSE, <<>>, NilErr, TxnTrace(TRUE, 0))
    ELSE IF ~doc.table
    THEN Returned(TRUE, <<>>, Errorf("ErrParsingFailed", <<>>), TxnTrace(FALSE, 0))
    ELSE LET st == eachTxnRow(doc.rows, 1,
                       [transactions |-> <<>>, parseErr |-> NilErr,
                        panic |-> FALSE, parsed |-> 0])
         IN  IF st.panic THEN Panicked(TxnTrace(FALSE, st.parsed))
             ELSE IF ~st.parseErr.nil
             THEN Returned(TRUE, <<>>, st.parseErr, TxnTrace(FALSE, st.parsed))
             ELSE Returned(FALSE, st.transactions, NilErr, TxnTrace(FALSE, st.parsed))

(***************************************************************************)
(* Accounts page.                                                          *)
(***************************************************************************)
CurrencyCodePEN   == <<"PEN">>
CurrencyCodeUSD   == <<"USD">>
CurrencySymbolPEN == <<"S/">>
CurrencySymbolUSD == <<"$">>

\* a list-view container with its list-group-currency attribute and rows; a
\* row with the text attribute of its description and the amount attributes
\* of its two balances; a tile-view card with its attributes
AccountTable(currency, rows) == [currency |-> currency, rows |-> rows]
AccountRow(text, avail, acct) == [text |-> text, avail |-> avail, acct |-> acct]
AccountCard(id, amount, symbol) == [id |-> id, amount |-> amount, symbol |-> symbol]
AccountsDoc(tables, cards) == [tables |-> tables, cards |-> cards]

Balance(id, currency, avail, current) ==
    [AccountID |-> id, Currency |-> currency, AvailableBalance |-> avail,
     CurrentBalance |-> current]

\* Mutant: an unknown symbol falls back to PEN
currencyFromSymbol_default(symbol) ==
    IF symbol = CurrencySymbolUSD THEN [err |-> NilErr, val |-> "USD"]
    ELSE [err |-> NilErr, val |-> "PEN"]

currencyFromSymbol(symbol) ==
    IF symbol = CurrencySymbolPEN THEN [err |-> NilErr, val |-> "PEN"]
    ELSE IF symbol = CurrencySymbolUSD THEN [err |-> NilErr, val |-> "USD"]
    ELSE [err |-> Errorf("", <<>>), val |-> ""]

currencyFromCode(code) ==
    IF code = CurrencyCodePEN THEN [err |-> NilErr, val |-> "PEN"]
    ELSE IF code = CurrencyCodeUSD THEN [err |-> NilErr, val |-> "USD"]
    ELSE [err |-> Errorf("", <<>>), val |-> ""]

NoBalance == [err |-> NilErr, skip |-> TRUE, bal |-> Balance(<<>>, "", 0, 0)]
BalanceErr(e) == [err |-> e, skip |-> FALSE, bal |-> Balance(<<>>, "", 0, 0)]
BalanceOf(b) == [err |-> NilErr, skip |-> FALSE, bal |-> b]

\* Mutant: the two balances of a row are stored in each other's field
parseListViewRow_swapped(row, currency) ==
    LET accountID == AttrOr(row.text, <<>>)
        availStr  == AttrOr(row.avail, <<>>)
        acctStr   == AttrOr(row.acct, <<>>)
        availBal  == ParseSpanishAmount(availStr)
        acctBal   == ParseSpanishAmount(acctStr)
    IN  IF availStr = <<>> THEN BalanceErr(Errorf("", <<>>))
        ELSE IF ~availBal.err.nil THEN BalanceErr(Errorf(availBal.err.wraps, <<>>))
        ELSE IF acctStr = <<>> THEN BalanceErr(Errorf("", <<>>))
        ELSE IF ~acctBal.err.nil THEN BalanceErr(Errorf(acctBal.err.wraps, <<>>))
        ELSE BalanceOf(Balance(accountID, currency, acctBal.val, availBal.val))

parseListViewRow(row, currency) ==
    LET accountID == AttrOr(row.text, <<>>)
        availStr  == AttrOr(row.avail, <<>>)
        acctStr   == AttrOr(row.acct, <<>>)
        availBal  == ParseSpanishAmount(availStr)
        acctBal   == ParseSpanishAmount(acctStr)
    IN  IF availStr = <<>> THEN BalanceErr(Errorf("", <<>>))
        ELSE IF ~availBal.err.nil THEN BalanceErr(Errorf(availBal.err.wraps, <<>>))
        ELSE IF acctStr = <<>> THEN BalanceErr(Errorf("", <<>>))
        ELSE IF ~acctBal.err.nil THEN BalanceErr(Errorf(acctBal.err.wraps, <<>>))
        ELSE BalanceOf(Balance(accountID, currency, availBal.val, acctBal.val))

\* table.Find(SelectorAccountRow).EachWithBreak of table i, from row j on
RECURSIVE eachAccountRow(_, _, _, _, _)
eachAccountRow(rows, i, j, currency, st) ==
    IF j > Len(rows) THEN st
    ELSE LET r == parseListViewRow(rows[j], currency)
         IN  IF ~r.err.nil
             THEN [st EXCEPT !.parseErr = Errorf("ErrParsingFailed", <<i - 1, j - 1>>)]
             ELSE eachAccountRow(rows, i, j + 1, currency,
                      [st EXCEPT !.balances = Append(@, r.bal)])

\* doc.Find(SelectorAccountTable).EachWithBreak from table i on
RECURSIVE eachAccountTable(_, _, _)
eachAccountTable(tables, i, st) ==
    IF i > Len(tables) THEN st
    ELSE LET table    == tables[i]
             currency == currencyFromCode(table.currency.val)
         IN  IF ~table.currency.found \/ ~currency.err.nil
             THEN [st EXCEPT !.parseErr = Errorf("ErrParsingFailed", <<i - 1>>)]
             ELSE LET after == eachAccountRow(table.rows, i, 1, currency.val, st)
                  IN  IF ~after.parseErr.nil THEN after
                      ELSE eachAccountTable(tables, i + 1, after)

\* a var balances []bank.Balance nothing was appended to is a nil slice
\* Mutant: the balances collected before the failing element are returned
\* with the error
balancesResult_partial(st, trace) ==
    IF ~st.parseErr.nil THEN Returned(st.balances = <<>>, st.balances, st.parseErr, trace)
    ELSE Returned(st.balances = <<>>, st.balances, NilErr, trace)

balancesResult(st, trace) ==
    IF ~st.parseErr.nil THEN Returned(TRUE, <<>>, st.parseErr, trace)
    ELSE Returned(st.balances = <<>>, st.balances, NilErr, trace)

parseAccountsListView(doc) ==
    balancesResult(eachAccountTable(doc.tables, 1,
                                    [balances |-> <<>>, parseErr |-> NilErr]),
                   "list")

parseTileViewCard(card) ==
    LET accountID == AttrOr(card.id, <<>>)
        currency  == currencyFromSymbol(AttrOr(card.symbol, <<>>))
        amount    == ParseSpanishAmount(card.amount.val)
    IN  IF ~card.amount.found \/ card.amount.val = <<>> THEN NoBalance
        ELSE IF ~currency.err.nil THEN BalanceErr(currency.err)
        ELSE IF ~amount.err.nil THEN BalanceErr(Errorf(amount.err.wraps, <<>>))
        ELSE BalanceOf(Balance(accountID, currency.val, amount.val, 0))

\* doc.Find(SelectorAccountCard).EachWithBreak from card i on
RECURSIVE eachAccountCard(_, _, _)
eachAccountCard(cards, i, st) ==
    IF i > Len(cards) THEN st
    ELSE LET r == parseTileViewCard(cards[i])
         IN  IF ~r.err.nil
             THEN [st EXCEPT !.parseErr = Errorf("ErrParsingFailed", <<i - 1>>)]
             ELSE IF r.skip THEN eachAccountCard(cards, i + 1, st)
             ELSE eachAccountCard(cards, i + 1,
                      [st EXCEPT !.balances = Append(@, r.bal)])

parseAccountsTileView(doc) ==
    balancesResult(eachAccountCard(doc.cards, 1,
                                   [balances |-> <<>>, parseErr |-> NilErr]),
                   "tile")

\* Mutant: the tile view is probed before the list view
ParseAccountBalances_tileFirst(doc) ==
    IF Len(doc.cards) > 0 THEN parseAccountsTileView(doc)
    ELSE IF Len(doc.tables) > 0 THEN parseAccountsListView(doc)
    ELSE Returned(TRUE, <<>>, Errorf("ErrParsingFailed", <<>>), "none")

\* the trace of the result names the view parser that produced it
ParseAccountBalances(doc) ==
    IF Len(doc.tables) > 0 THEN parseAccountsListView(doc)
    ELSE IF Len(doc.cards) > 0 THEN parseAccountsTileView(doc)
    ELSE Returned(TRUE, <<>>, Errorf("ErrParsingFailed", <<>>), "none")

(***************************************************************************)
(* Pages handed to the parsers.                                            *)
(***************************************************************************)
SeqsUpTo(S, n) == UNION {[1..k -> S] : k \in 0..n}

AmountOK  == <<"1", ",", "0", "2", "0", ".", "5">>
AmountNeg == <<"-", " ", "3", ".", "0", "7">>
AmountBad == <<"x">>

StateAttrs == {NoAttr, Attr(<<>>), Attr(<<"noresults">>),
               Attr(<<"noresults", " ">>), Attr(<<"results">>)}

TxnRows == {TxnRow(AmountOK), TxnRow(AmountBad)}

TxnDocs ==
    {TxnDoc(TRUE, st, rows) : st \in StateAttrs, rows \in SeqsUpTo(TxnRows, MaxRows)}
        \cup {TxnDoc(FALSE, NoAttr, rows) : rows \in SeqsUpTo(TxnRows, MaxRows)}

GoodRows == {AccountRow(Attr(<<"A1">>), Attr(AmountOK), Attr(AmountNeg)),
             AccountRow(NoAttr, Attr(AmountNeg), Attr(AmountOK))}

\* rows lacking an amount or holding one that is no number
BadRows == {AccountRow(Attr(<<"A2">>), NoAttr, Attr(AmountOK)),
            AccountRow(Attr(<<"A3">>), Attr(AmountOK), Attr(AmountBad)),
            AccountRow(Attr(<<"A4">>), Attr(AmountBad), Attr(AmountOK)),
            AccountRow(Attr(<<"A5">>), Attr(AmountOK), Attr(<<>>))}

AccountRows == GoodRows \cup BadRows

\* tables of every currency attribute without rows or with one good row,
\* PEN and USD tables with one bad row, and PEN tables with two rows
AccountTables ==
    {AccountTable(c, rows) :
        c \in {NoAttr, Attr(<<>>), Attr(CurrencyCodePEN), Attr(CurrencyCodeUSD),
               Attr(CurrencySymbolUSD)},
        rows \in {<<>>} \cup {<<r>> : r \in GoodRows}}
        \cup {AccountTable(c, <<r>>) :
                 c \in {Attr(CurrencyCodePEN), Attr(CurrencyCodeUSD)}, r \in BadRows}
        \cup {AccountTable(Attr(CurrencyCodePEN),
                          <<AccountRow(Attr(<<"A0">>), Attr(AmountNeg), Attr(AmountOK)), r>>) :
                 r \in AccountRows}

AccountCards ==
    {AccountCard(Attr(<<"c1">>), a, s) :
        a \in {NoAttr, Attr(<<>>), Attr(AmountOK), Attr(AmountBad)},
        s \in {NoAttr, Attr(CurrencySymbolPEN), Attr(CurrencySymbolUSD),
               Attr(CurrencyCodePEN)}}

\* rows as parseTransactionRow is to deliver them, with amounts at and next
\* to the ends of int64, around zero and in between
RawAmounts == {MinInt64, MinInt64 + 1, 0 - 307, 0 - 1, 0, 1, 102050, MaxInt64 - 1,
               MaxInt64}

RawRows == {BBVARow(n, a) : n \in {<<"N1">>, <<>>}, a \in RawAmounts}

\* the texts handed to ParseSpanishAmount
AmountTexts == {
    <<"1", "2", ",", "3", "4", "5", ".", "6", "7">>,
    <<"4", "5">>,
    <<"-", "4", "5">>,
    <<>>,
    <<".", ",", " ", " ", ".">>,
    <<"1", "2", "3">>,
    <<"1", "2", "3", ".", "1">>,
    <<" ", "7", " ">>,
    <<"+", "5">>,
    <<"0", ".", "1", "2", "4">>,
    <<"0", ".", "1", "2", "5">>,
    <<"-", "0", ".", "1", "2", "5">>,
    <<"-", "0", ".", "1", "2", "6">>,
    <<"1", "\t", "2">>,
    <<"4", "5", "\n">>,
    <<"1", ".", "2", ".", "3">>,
    <<"x">>,
    <<"-">>,
    <<"NaN">>,
    <<"Inf">>,
    <<"-", "Inf">>,
    <<"+", " ", "Inf">> }

\* the texts handed to ParseBankDate: two or one digits, a separator or
\* none, two digits, the same separator, a year of two, four or five
\* digits; some of them with whitespace or other text around or inside
DateDays   == {<<"3", "0">>, <<"3", "1">>, <<"2", "9">>, <<"0", "0">>,
               <<"0", "1">>, <<"1">>}
DateMonths == {<<"0", "1">>, <<"0", "2">>, <<"0", "4">>, <<"1", "3">>,
               <<"3", "0">>, <<"0", "0">>}
DateYears  == {<<"2", "0", "2", "6">>, <<"2", "0", "2", "4">>,
               <<"1", "9", "0", "0">>, <<"2", "0", "0", "0">>, <<"2", "6">>,
               <<"2", "0", "2", "6", "0">>}
DateSeparators == {<<"-">>, <<"/">>, <<>>}

PlainDateTexts ==
    {d \o sep \o m \o sep \o y :
        d \in DateDays, m \in DateMonths, y \in DateYears, sep \in DateSeparators}

BankDate == <<"3", "0", "-", "0", "1", "-", "2", "0", "2", "6">>
LeapDate == <<"2", "9", "-", "0", "2", "-", "2", "0", "2", "4">>

DateTexts ==
    PlainDateTexts
    \cup {<<>>, <<" ">>}
    \cup UNION {{<<" ">> \o t, t \o <<"\n">>, <<"\t">> \o t \o <<" ", "\r">>,
                 t \o <<"x">>, <<"x", " ">> \o t,
                 SubSeq(t, 1, 3) \o <<" ">> \o SubSeq(t, 4, Len(t))} :
                t \in {BankDate, LeapDate,
                       <<"3", "1", "-", "0", "4", "-", "2", "0", "2", "6">>}}

ParserCall(fn, doc, build) == [fn |-> fn, doc |-> doc, build |-> build]
NoCall == [fn |-> "", doc |-> <<>>, build |-> ""]

ParseIdle == pin = NoCall /\ ppc = "idle" /\ pret = NoResult

\* a call of ParseTransactions on a transactions page, or of
\* ParseAccountBalances on a page with at most MaxItems list-view containers
\* and tile-view cards
InitParse ==
    /\ \E b \in Builds :
          \/ \E d \in TxnDocs : pin = ParserCall("ParseTransactions", d, b)
          \/ \E r \in RawRows : pin = ParserCall("ToTransaction", r, b)
          \/ \E t \in AmountTexts : pin = ParserCall("ParseSpanishAmount", t, b)
          \/ \E t \in DateTexts : pin = ParserCall("ParseBankDate", t, b)
          \/ \E k \in 0..MaxItems :
                \E ts \in [1..k -> AccountTables],
                   cs \in SeqsUpTo(AccountCards, MaxItems - k) :
                   pin = ParserCall("ParseAccountBalances", AccountsDoc(ts, cs), b)
    /\ ppc = "called"
    /\ pret = NoResult

CallParseTransactions ==
    /\ ppc = "called"
    /\ pin.fn = "ParseTransactions"
    /\ pret' = ParseTransactions(pin.doc)
    /\ ppc' = "done"
    /\ UNCHANGED <<pin, replayVars, loginVars, flatVars>>

CallParseAccountBalances ==
    /\ ppc = "called"
    /\ pin.fn = "ParseAccountBalances"
    /\ pret' = ParseAccountBalances(pin.doc)
    /\ ppc' = "done"
    /\ UNCHANGED <<pin, replayVars, loginVars, flatVars>>

\* tempRow.ToTransaction() on a parsed row
CallToTransaction ==
    /\ ppc = "called"
    /\ pin.fn = "ToTransaction"
    /\ pret' = Returned(FALSE, <<ToTransaction(pin.doc)>>, NilErr, "ToTransaction")
    /\ ppc' = "done"
    /\ UNCHANGED <<pin, replayVars, loginVars, flatVars>>

\* ParseSpanishAmount(s) on a text
CallParseSpanishAmount ==
    /\ ppc = "called"
    /\ pin.fn = "ParseSpanishAmount"
    /\ LET r == ParseSpanishAmount(pin.doc)
       IN  pret' = Returned(FALSE, <<r.val>>, r.err, "ParseSpanishAmount")
    /\ ppc' = "done"
    /\ UNCHANGED <<pin, replayVars, loginVars, flatVars>>

\* ParseBankDate(s) on a text
CallParseBankDate ==
    /\ ppc = "called"
    /\ pin.fn = "ParseBankDate"
    /\ LET r == ParseBankDate(pin.doc)
       IN  pret' = Returned(FALSE, <<r.t>>, r.err, "ParseBankDate")
    /\ ppc' = "done"
    /\ UNCHANGED <<pin, replayVars, loginVars, flatVars>>

NextParse ==
    \/ CallParseTransactions
    \/ CallParseAccountBalances
    \/ CallToTransaction
    \/ CallParseSpanishAmount
    \/ CallParseBankDate

(***************************************************************************)
(* Part IV: the shadow DOM and iframe flattener (browser/shadow.go).       *)
(*                                                                         *)
(* A DOM node is a record: tagName (upper case, "#text" for a text node),  *)
(* id, src, text (textContent of a text or style node), childNodes (the    *)
(* light-DOM children), shadowRoot (<<>> for null, else a 1-tuple holding  *)
(* the shadow root's childNodes), content (what an iframe's                *)
(* contentDocument / contentWindow give) and data (the data-* attributes   *)
(* the flattener sets on the containers it creates).  The name attribute   *)
(* of an iframe is copied exactly as its id is and is left out.            *)
(*                                                                         *)
(* Pages that reach the depth ceiling have long runs of divs nested in     *)
(* each other with nothing beside them.  Such a run is one record: levels  *)
(* is the number of divs of the run (1 for every other node) and           *)
(* childNodes are the children of the innermost one.                       *)
(***************************************************************************)
NoContent == [access |-> "none", root |-> <<>>]

NoData == [kind |-> "", host |-> "", error |-> "", src |-> "", id |-> ""]

DOMNode(tag, id, src, text, children, shadow, content, data) ==
    [tagName |-> tag, id |-> id, src |-> src, text |-> text,
     childNodes |-> children, shadowRoot |-> shadow, content |-> content,
     data |-> data, levels |-> 1]

Text(t) == DOMNode("#text", "", "", t, <<>>, <<>>, NoContent, NoData)

Element(tag, id, children) ==
    DOMNode(tag, id, "", <<>>, children, <<>>, NoContent, NoData)

Style(t) == DOMNode("STYLE", "", "", t, <<>>, <<>>, NoContent, NoData)

\* n > 0 divs nested in each other, the innermost with these children
Nested(n, children) == [Element("DIV", "", children) EXCEPT !.levels = n]

\* host.attachShadow({mode: 'open'}) with the given shadow children
ShadowHost(tag, id, children, shadowChildren) ==
    DOMNode(tag, id, "", <<>>, children, <<shadowChildren>>, NoContent, NoData)

\* an iframe whose contentDocument is the document with this root element
Iframe(id, src, root) ==
    DOMNode("IFRAME", id, src, <<>>, <<>>, <<>>,
            [access |-> "ok", root |-> <<root>>], NoData)

\* an iframe without a content document (detached, or not yet loaded)
IframeNull(id, src) ==
    DOMNode("IFRAME", id, src, <<>>, <<>>, <<>>,
            [access |-> "null", root |-> <<>>], NoData)

\* a cross-origin iframe: contentDocument is null and reading
\* contentWindow.document throws a SecurityError
IframeCrossOrigin(id, src) ==
    DOMNode("IFRAME", id, src, <<>>, <<>>, <<>>,
            [access |-> "throws", root |-> <<>>], NoData)

Document(head, body) ==
    Element("HTML", "", <<Element("HEAD", "", head), Element("BODY", "", body)>>)

\* child.nodeType === Node.ELEMENT_NODE
isElement(n) == n.tagName # "#text"

\* el.tagName === 'IFRAME'
isIframe_any(el) == TRUE
isIframe(el) == el.tagName = "IFRAME"

\* host.tagName.toLowerCase()
toLowerCase(tag) ==
    CASE tag = "OUTER-HOST" -> "outer-host"
      [] tag = "INNER-HOST" -> "inner-host"
      [] tag = "TAIL-HOST"  -> "tail-host"
      [] tag = "DIV"        -> "div"
      [] tag = "HEAD"       -> "head"
      [] tag = "BODY"       -> "body"
      [] OTHER              -> tag

RECURSIVE cloneNode(_)
RECURSIVE cloneAll(_)
\* child.cloneNode(true): the copy has the attributes and the light-DOM
\* descendants of the node; shadow roots are not cloned and a copied iframe
\* has no content document
cloneNode(n) ==
    [n EXCEPT !.childNodes = cloneAll(n.childNodes),
              !.shadowRoot = <<>>,
              !.content = IF n.tagName = "IFRAME"
                          THEN [access |-> "null", root |-> <<>>]
                          ELSE NoContent]

cloneAll(nodes) ==
    IF nodes = <<>> THEN <<>>
    ELSE <<cloneNode(Head(nodes))>> \o cloneAll(Tail(nodes))

\* el.outerHTML, body.innerHTML and the parse of `container.innerHTML +=`:
\* markup holds tags, attributes and light-DOM descendants, never a shadow
\* root or the document of an iframe
outerHTML(n) == cloneNode(n)

innerHTML(n) == cloneAll(n.childNodes)

RECURSIVE querySelectorAllStyle(_)
\* root.querySelectorAll('style') over these children: every style element
\* among their light-DOM descendants, in tree order
querySelectorAllStyle(nodes) ==
    IF nodes = <<>> THEN <<>>
    ELSE (IF Head(nodes).tagName = "STYLE" THEN <<Head(nodes)>> ELSE <<>>)
         \o querySelectorAllStyle(Head(nodes).childNodes)
         \o querySelectorAllStyle(Tail(nodes))

\* the loops that copy styles: s.setAttribute('data-from-...', 'true');
\* s.textContent = style.textContent
copyStyles(styles, from) ==
    [i \in 1..Len(styles) |->
        DOMNode("STYLE", "", "", styles[i].text, <<>>, <<>>, NoContent,
                [NoData EXCEPT !.kind = from])]

isStyle(n) == isElement(n) /\ n.tagName = "STYLE"

\* the container flattenShadow appends to a host
isShadowMarker(n, host) ==
    n.data.kind = "shadow-root" /\ n.data.host = toLowerCase(host.tagName)

hasMarker(host) ==
    /\ host.childNodes # <<>>
    /\ isShadowMarker(host.childNodes[Len(host.childNodes)], host)

RECURSIVE rawIn(_)
\* how many iframes, and shadow hosts without their marker, there are among
\* these nodes and their light-DOM descendants
rawIn(nodes) ==
    IF nodes = <<>> THEN 0
    ELSE LET n == Head(nodes)
         IN  (IF n.tagName = "IFRAME" \/ (n.shadowRoot # <<>> /\ ~hasMarker(n))
              THEN 1 ELSE 0)
             + rawIn(n.childNodes) + rawIn(Tail(nodes))

\* What a part of the traversal leaves behind: the nodes now standing where
\* the traversed ones stood, what it added to the script's counters
\* shadowCount and iframeCount, and the history of the traversal: calls,
\* the elements flattenElement took up; top, the greatest depth it took one
\* up at (-1: none); refused, the calls the depth guard turned away;
\* unflattened, the iframes and unmarked shadow hosts lying inside a shadow
\* tree or a sub-document at the moment it was serialized.
Pass(nodes, sc, ic, calls, top, refused, unflattened) ==
    [nodes |-> nodes, shadowCount |-> sc, iframeCount |-> ic, calls |-> calls,
     top |-> top, refused |-> refused, unflattened |-> unflattened]

Untouched(nodes) == Pass(nodes, 0, 0, 0, -1, 0, 0)

\* `if (depth > MAX_DEPTH) return;`
Refused(node) == Pass(<<node>>, 0, 0, 0, -1, 1, 0)

Later(a, b) == IF a > b THEN a ELSE b

Then(p, q) ==
    Pass(p.nodes \o q.nodes, p.shadowCount + q.shadowCount,
         p.iframeCount + q.iframeCount, p.calls + q.calls, Later(p.top, q.top),
         p.refused + q.refused, p.unflattened + q.unflattened)

TakenUp(p, depth) ==
    [p EXCEPT !.calls = @ + 1, !.top = Later(@, depth)]

RECURSIVE flattenNode(_, _)
RECURSIVE flattenElement(_, _)
RECURSIVE flattenShadow(_, _)
RECURSIVE inlineIframe(_, _)
RECURSIVE eachChild(_, _)
RECURSIVE flattenRun(_, _)

\* for (const child of children) { if (child.nodeType === Node.ELEMENT_NODE)
\*     flattenElement(child, depth) }
eachChild(children, depth) ==
    IF children = <<>> THEN Untouched(<<>>)
    ELSE LET child == Head(children)
             first == IF isElement(child) THEN flattenElement(child, depth)
                      ELSE Untouched(<<child>>)
         IN  Then(first, eachChild(Tail(children), depth))

\* flattenNode on the outermost div of a run of node.levels divs.  The only
\* child of each div of the run but the innermost is the next div, so the
\* calls follow each other as flattenNode(div, d), flattenElement(next, d),
\* flattenNode(next, d + 1), ...: the divs below the outermost are taken up
\* at depth, depth + 1, ...; the children of the innermost are reached at
\* depth + levels - 1, unless a flattenNode on the way is called with a
\* depth beyond MAX_DEPTH and returns.
flattenRun(node, depth) ==
    LET reached == depth + node.levels - 1
    IN  IF reached > MAX_DEPTH
        THEN Pass(<<node>>, 0, 0, MAX_DEPTH - depth + 1, MAX_DEPTH, 1, 0)
        ELSE LET p == eachChild(node.childNodes, reached)
             IN  [p EXCEPT !.nodes = <<[node EXCEPT !.childNodes = p.nodes]>>,
                           !.calls = @ + node.levels - 1,
                           !.top = IF node.levels > 1 THEN Later(@, reached - 1)
                                   ELSE @]

\* function flattenNode(node, depth)
flattenNode(node, depth) ==
    IF depth > MAX_DEPTH THEN Refused(node)
    ELSE IF node.levels > 1 THEN flattenRun(node, depth)
    ELSE LET p == eachChild(node.childNodes, depth)
         IN  [p EXCEPT !.nodes = <<[node EXCEPT !.childNodes = p.nodes]>>]

\* flattenElement without its depth guard
flattenElement_noCeiling(el, depth) ==
    TakenUp(IF isIframe(el) THEN inlineIframe(el, depth)
            ELSE IF el.shadowRoot # <<>> THEN flattenShadow(el, depth)
            ELSE flattenNode(el, depth + 1),
            depth)

\* function flattenElement(el, depth)
flattenElement(el, depth) ==
    IF depth > MAX_DEPTH THEN Refused(el)
    ELSE TakenUp(IF isIframe(el) THEN inlineIframe(el, depth)
                 ELSE IF el.shadowRoot # <<>> THEN flattenShadow(el, depth)
                 ELSE flattenNode(el, depth + 1),
                 depth)

\* flattenShadow putting its container before the light-DOM children
flattenShadow_prepend(host, depth) ==
    IF host.shadowRoot = <<>> THEN Untouched(<<host>>)
    ELSE LET p == eachChild(host.shadowRoot[1], depth + 1)
             shadow == p.nodes
             container ==
                 DOMNode("DIV", "", "", <<>>,
                         copyStyles(querySelectorAllStyle(shadow), "from-shadow")
                         \o cloneAll(SelectSeq(shadow, LAMBDA c : ~isStyle(c))),
                         <<>>, NoContent,
                         [NoData EXCEPT !.kind = "shadow-root",
                                        !.host = toLowerCase(host.tagName)])
         IN  [p EXCEPT !.nodes = <<[host EXCEPT
                                       !.shadowRoot = <<shadow>>,
                                       !.childNodes = <<container>> \o @]>>,
                       !.shadowCount = @ + 1,
                       !.unflattened = @ + rawIn(shadow)]

\* function flattenShadow(host, depth): the shadow children are flattened,
\* then copied into the container, which is appended to the host
flattenShadow(host, depth) ==
    IF host.shadowRoot = <<>> THEN Untouched(<<host>>)
    ELSE LET p == eachChild(host.shadowRoot[1], depth + 1)
             shadow == p.nodes
             container ==
                 DOMNode("DIV", "", "", <<>>,
                         copyStyles(querySelectorAllStyle(shadow), "from-shadow")
                         \o cloneAll(SelectSeq(shadow, LAMBDA c : ~isStyle(c))),
                         <<>>, NoContent,
                         [NoData EXCEPT !.kind = "shadow-root",
                                        !.host = toLowerCase(host.tagName)])
         IN  [p EXCEPT !.nodes = <<[host EXCEPT
                                       !.shadowRoot = <<shadow>>,
                                       !.childNodes = @ \o <<container>>]>>,
                       !.shadowCount = @ + 1,
                       !.unflattened = @ + rawIn(shadow)]

\* markIframeError without the data-iframe-src attribute
markIframeError_noSrc(iframe, message) ==
    Untouched(<<DOMNode("DIV", "", "", <<>>,
                        <<Text(<<"[iframe not accessible: ", message, "]">>)>>,
                        <<>>, NoContent,
                        [NoData EXCEPT !.kind = "captured-iframe",
                                       !.error = message])>>)

\* function markIframeError(iframe, message): the iframe is replaced by a
\* div that carries the message and the iframe's src
markIframeError(iframe, message) ==
    Untouched(<<DOMNode("DIV", "", "", <<>>,
                        <<Text(<<"[iframe not accessible: ", message, "]">>)>>,
                        <<>>, NoContent,
                        [NoData EXCEPT !.kind = "captured-iframe",
                                       !.error = message,
                                       !.src = iframe.src])>>)

\* iframeDoc.head and iframeDoc.body: the first such child of the root
childTagged(root, tag) ==
    LET at == {i \in 1..Len(root.childNodes) : root.childNodes[i].tagName = tag}
    IN  IF at = {} THEN <<>>
        ELSE <<root.childNodes[CHOOSE i \in at : \A j \in at : i <= j]>>

\* inlineIframe counting the iframes it marks with an error as well
inlineIframe_countsMarked(iframe, depth) ==
    IF iframe.content.access = "throws"
    THEN [markIframeError(iframe, "SecurityError") EXCEPT !.iframeCount = 1]
    ELSE IF iframe.content.root = <<>>
    THEN [markIframeError(iframe, "no contentDocument available")
             EXCEPT !.iframeCount = 1]
    ELSE LET p == flattenNode(iframe.content.root[1], depth + 1)
             documentElement == p.nodes[1]
             head == childTagged(documentElement, "HEAD")
             body == childTagged(documentElement, "BODY")
             container ==
                 DOMNode("DIV", "", "", <<>>,
                         (IF head = <<>> THEN <<>>
                          ELSE copyStyles(querySelectorAllStyle(head[1].childNodes),
                                          "from-iframe"))
                         \o (IF body = <<>> THEN <<>> ELSE innerHTML(body[1])),
                         <<>>, NoContent,
                         [NoData EXCEPT !.kind = "captured-iframe",
                                        !.src = iframe.src,
                                        !.id = iframe.id])
         IN  [p EXCEPT !.nodes = <<container>>,
                       !.iframeCount = @ + 1,
                       !.unflattened = @ + rawIn(<<documentElement>>)]

\* function inlineIframe(iframe, depth)
inlineIframe(iframe, depth) ==
    IF iframe.content.access = "throws"
    THEN markIframeError(iframe, "SecurityError")
    ELSE IF iframe.content.root = <<>>
    THEN markIframeError(iframe, "no contentDocument available")
    ELSE LET p == flattenNode(iframe.content.root[1], depth + 1)
             documentElement == p.nodes[1]
             head == childTagged(documentElement, "HEAD")
             body == childTagged(documentElement, "BODY")
             container ==
                 DOMNode("DIV", "", "", <<>>,
                         (IF head = <<>> THEN <<>>
                          ELSE copyStyles(querySelectorAllStyle(head[1].childNodes),
                                          "from-iframe"))
                         \o (IF body = <<>> THEN <<>> ELSE innerHTML(body[1])),
                         <<>>, NoContent,
                         [NoData EXCEPT !.kind = "captured-iframe",
                                        !.src = iframe.src,
                                        !.id = iframe.id])
         IN  [p EXCEPT !.nodes = <<container>>,
                       !.iframeCount = @ + 1,
                       !.unflattened = @ + rawIn(<<documentElement>>)]

\* The script as a whole: flattenNode(document.documentElement, 0), then
\* the JSON with html, shadowCount and iframeCount.  dom is the live
\* document the script leaves behind and history what the traversal did.
flattenShadowDOMJS(documentElement) ==
    LET p == flattenNode(documentElement, 0)
    IN  [html |-> outerHTML(p.nodes[1]),
         shadowCount |-> p.shadowCount,
         iframeCount |-> p.iframeCount,
         dom |-> p.nodes[1],
         history |-> [calls |-> p.calls, top |-> p.top, refused |-> p.refused,
                      unflattened |-> p.unflattened]]

(***************************************************************************)
(* The pages the flattener is run on.                                      *)
(***************************************************************************)
Leaves == {
    Text(<<"Light text">>),
    Element("DIV", "plain", <<Text(<<"Hello World">>)>>),
    IframeNull("f0", "about:blank"),
    IframeCrossOrigin("f1", "https://other.example/") }

RedStyle == Style(<<".inner { color: red; }">>)

\* a component with every leaf, or nothing, as its light DOM and every leaf,
\* a style, or a style and a leaf as its shadow tree
InnerHosts ==
    { ShadowHost("INNER-HOST", "in", l, s) :
        l \in {<<>>} \cup {<<x>> : x \in Leaves},
        s \in {<<x>> : x \in Leaves \cup {RedStyle}}
              \cup {<<RedStyle, Element("DIV", "styled", <<>>)>>} }

InnerFrames ==
    { Iframe("f2", "/inner", Document(h, <<x>>)) :
        h \in {<<>>, <<RedStyle>>}, x \in Leaves }

Inner == Leaves \cup InnerHosts \cup InnerFrames

\* a component around one inner node, which is either in its shadow tree
\* or slotted into it as a light-DOM child
OuterHosts ==
    { ShadowHost("OUTER-HOST", "out", l, <<s>>) :
        l \in {<<>>} \cup {<<x>> : x \in Inner}, s \in Inner }

OuterFrames == { Iframe("f3", "/outer", Document(<<>>, <<x>>)) : x \in Inner }

TailHost == ShadowHost("TAIL-HOST", "tail", <<>>, <<Text(<<"Shadow Text">>)>>)

\* an iframe that cannot be inlined, with a sibling after it
Siblings ==
    { <<f, x>> : f \in {IframeNull("f0", "about:blank"),
                        IframeCrossOrigin("f1", "https://other.example/")},
                 x \in {TailHost,
                        Iframe("f2", "/inner", Document(<<>>, <<TailHost>>)),
                        Element("DIV", "plain", <<Text(<<"Hello World">>)>>)} }

\* what lies at the bottom of a deep chain
DeepNodes == {
    Element("DIV", "plain", <<Text(<<"Hello World">>)>>),
    ShadowHost("OUTER-HOST", "out", <<>>,
               <<ShadowHost("INNER-HOST", "in", <<>>, <<Text(<<"Nested Content">>)>>)>>),
    ShadowHost("OUTER-HOST", "out", <<>>,
               <<Element("DIV", "shadow-content", <<Text(<<"Shadow Text">>)>>)>>),
    Iframe("f3", "/outer",
           Document(<<>>, <<ShadowHost("INNER-HOST", "in", <<>>,
                                       <<Text(<<"Nested Content">>)>>)>>)),
    IframeNull("f0", "about:blank") }

\* chains that end just above, at and beyond the depth ceiling
ChainLens == {2} \cup ((MAX_DEPTH - 3) .. (MAX_DEPTH + MaxOver))

Bodies ==
    {<<>>}
    \cup {<<x>> : x \in Inner \cup OuterHosts \cup OuterFrames}
    \cup Siblings
    \cup {<<Nested(n, <<x>>), TailHost>> : n \in ChainLens, x \in DeepNodes}

\* How the calls FlattenShadowDOM makes fare.  eval: page.Eval returns the
\* value of the script ("ok"), fails without the script having run
\* ("refused"), or fails because the script threw in its return statement,
\* after the traversal ("threw"); decode: json.Unmarshal succeeds; html:
\* page.HTML succeeds.
Calls(eval, decode, htmlOK) == [eval |-> eval, decode |-> decode, html |-> htmlOK]

AllWell == Calls("ok", TRUE, TRUE)

Failures ==
    {Calls(e, TRUE, h) : e \in {"refused", "threw"}, h \in BOOLEAN}
    \cup {Calls("ok", FALSE, h) : h \in BOOLEAN}

\* the pages on which the calls are made to fail
FailingBodies ==
    {<<>>, <<TailHost>>, <<Element("DIV", "plain", <<Text(<<"Hello World">>)>>)>>}
    \cup Siblings

EmptyHTML == Text(<<>>)

NoPage == [doc |-> Text(<<>>), calls |-> AllWell]

\* (html, shadowCount, iframeCount, err) as FlattenShadowDOM returns them;
\* err is "" for nil
FlattenReturn(markup, sc, ic, err) ==
    [html |-> markup, shadowCount |-> sc, iframeCount |-> ic, err |-> err]

NoReturnYet == FlattenReturn(EmptyHTML, 0, 0, "")

NoFlatten ==
    [html |-> Text(<<>>), shadowCount |-> 0, iframeCount |-> 0,
     dom |-> Text(<<>>),
     history |-> [calls |-> 0, top |-> -1, refused |-> 0, unflattened |-> 0]]

FlattenIdle ==
    /\ fin = NoPage
    /\ fpc = "idle"
    /\ fret = NoFlatten
    /\ fdoc = NoPage.doc
    /\ fout = NoReturnYet

\* a loaded page on which FlattenShadowDOM is called
InitFlatten ==
    /\ \/ \E body \in Bodies :
             fin = [doc |-> Document(<<>>, body), calls |-> AllWell]
       \/ \E body \in FailingBodies, c \in Failures :
             fin = [doc |-> Document(<<>>, body), calls |-> c]
    /\ fpc = "called"
    /\ fret = NoFlatten
    /\ fdoc = fin.doc
    /\ fout = NoReturnYet

\* res, evalErr := page.Eval(flattenShadowDOMJS): unless the call is
\* refused the script runs in the page, on the live document
EvalFlatten ==
    /\ fpc = "called"
    /\ LET script == flattenShadowDOMJS(fdoc)
       IN  /\ fdoc' = IF fin.calls.eval = "refused" THEN fdoc ELSE script.dom
           /\ fret' = IF fin.calls.eval = "ok" THEN script ELSE NoFlatten
    /\ fpc' = "evaluated"
    /\ UNCHANGED <<fin, fout, replayVars, loginVars, parseVars>>

\* page.HTML(): the markup of the live document
pageHTML == outerHTML(fdoc)

\* the rest of FlattenShadowDOM: the fallbacks and the return
ReturnFlatten ==
    /\ fpc = "evaluated"
    /\ fout' =
           IF fin.calls.eval # "ok"
           THEN IF fin.calls.html
                THEN FlattenReturn(pageHTML, 0, 0, "")
                ELSE FlattenReturn(EmptyHTML, 0, 0,
                        "flatten shadow DOM eval failed and fallback HTML failed")
           ELSE IF ~fin.calls.decode
           THEN IF fin.calls.html
                THEN FlattenReturn(pageHTML, 0, 0, "")
                ELSE FlattenReturn(EmptyHTML, 0, 0,
                        "flatten shadow DOM JSON parse failed and fallback HTML failed")
           ELSE FlattenReturn(fret.html, fret.shadowCount, fret.iframeCount, "")
    /\ fpc' = "done"
    /\ UNCHANGED <<fin, fret, fdoc, replayVars, loginVars, parseVars>>

NextFlatten == EvalFlatten \/ ReturnFlatten

(***************************************************************************)
(* Spec: construction, then sequential handler calls.                      *)
(***************************************************************************)
\* an intercepted request: method, URL, headers and body
Request(method, u, headers, body) ==
    [method |-> method, url |-> u, headers |-> headers, body |-> body]

NoRequest == Request("", EmptyURL, <<>>, "")

\* the credentials typed into the login form, as the body of the submission
CredsA == "company=1&user=a&password=p"
CredsB == "company=2&user=b&password=q"

PageLoad == Request("GET", EmptyURL, <<>>, "")
Submission(creds) ==
    Request("POST", EmptyURL,
            <<Hdr("Content-Type", "application/x-www-form-urlencoded")>>, creds)

IdleHandler == [pc |-> "idle", req |-> NoRequest, reqURL |-> EmptyURL,
                entry |-> 0, current |-> 0, i |-> 0, out |-> NoOutcome]

InitReplay(logs) ==
    /\ har \in logs
    /\ opts \in OptLists
    /\ exactMatches = <<>>
    /\ pathMatches = <<>>
    /\ passthrough = FALSE
    /\ rpc = "new"
    /\ idx = 0
    /\ last = NoOutcome
    /\ hs = [h \in 1..NHandlers |-> IdleHandler]
    /\ stats = [exact_matches |-> 0, path_matches |-> 0]

\* the scraper stands idle while the replayer is exercised on its own
LoginIdle ==
    /\ lpc = "idle"
    /\ page = "none"
    /\ router = "none"
    /\ statusCode = 0
    /\ submitted = 0
    /\ html = NoMarkup
    /\ detectArg = -1
    /\ loginErr = NilLoginError
    /\ dashboard = "unchecked"
    /\ session = NilSession
    /\ ret = NoReturn
    /\ evt = NoEvent
    /\ submission = -1
    /\ ctx = "live"

Init == InitReplay(Logs) /\ LoginIdle /\ ParseIdle /\ FlattenIdle

Next == NewReplayer \/ IndexEntry \/ Handle

Spec == Init /\ [][Next]_vars

(***************************************************************************)
(* SpecConc: the same handler, run by NHandlers goroutines at once and     *)
(* taken one step at a time: the index lookup, each iteration of           *)
(* followRedirects' loop, and the writing of the payload.                  *)
(***************************************************************************)
ConcLogs == {ChainLog(n, q, t) : n \in 2..3, q \in ArbQueries,
                                 t \in {"ok200", "missing"}}
            \cup SpecialLogs

ConcReqURLs == {URL(1, 0), URL(1, 1), URL(2, 1), URL(4, 0)}

Handlers == 1..NHandlers

\* the requests a handler is handed.  Handlers are interchangeable, so the
\* first one gets the page load and a form submission, the others the form
\* submission with other credentials
ReqShapes(h) == IF h = 1 THEN {PageLoad, Submission(CredsA)}
                ELSE {Submission(CredsB)}

\* Mutant: a request with a body is looked up under no URL
requestKey_bodiless(req) == IF req.body # "" THEN EmptyURL ELSE req.url

\* reqURL := ctx.Request.URL().String()
requestKey(req) == req.url

\* the router hands a request to the handler
HStart(h) ==
    /\ rpc = "ready"
    /\ hs[h].pc \in {"idle", "done"}
    /\ \E u \in ConcReqURLs, shape \in ReqShapes(h) :
          LET req == Request(shape.method, u, shape.headers, shape.body)
          IN  hs' = [hs EXCEPT ![h] = [IdleHandler EXCEPT !.pc = "lookup",
                                                         !.req = req,
                                                         !.reqURL = requestKey(req)]]
    /\ UNCHANGED <<har, opts, exactMatches, pathMatches, passthrough, rpc, idx,
                   last, stats>>
    /\ UNCHANGED <<loginVars, parseVars, flatVars>>

\* Mutant: a recording is served once; an exact match is removed from the index
HLookup_consume(h) ==
    /\ hs[h].pc = "lookup"
    /\ LET m == lookup(hs[h].reqURL)
       IN  IF m.found
           THEN /\ hs' = [hs EXCEPT ![h].pc = "follow", ![h].entry = m.entry,
                                    ![h].current = m.entry, ![h].i = 0]
                /\ exactMatches' = [u \in DOMAIN exactMatches \ {hs[h].reqURL}
                                        |-> exactMatches[u]]
           ELSE /\ \E live \in liveFor(hs[h].reqURL) :
                      hs' = [hs EXCEPT ![h].pc = "done",
                                       ![h].out = unmatched(hs[h].reqURL, live)]
                /\ exactMatches' = exactMatches
    /\ UNCHANGED <<har, opts, pathMatches, passthrough, rpc, idx, last, stats>>
    /\ UNCHANGED <<loginVars, parseVars, flatVars>>

\* entry, found := r.exactMatches[reqURL] ... r.pathMatches[pathKey]; total miss
HLookup(h) ==
    /\ hs[h].pc = "lookup"
    /\ LET m == lookup(hs[h].reqURL)
       IN  IF m.found
           THEN hs' = [hs EXCEPT ![h].pc = "follow", ![h].entry = m.entry,
                                 ![h].current = m.entry, ![h].i = 0]
           ELSE \E live \in liveFor(hs[h].reqURL) :
                   hs' = [hs EXCEPT ![h].pc = "done",
                                    ![h].out = unmatched(hs[h].reqURL, live)]
    /\ UNCHANGED <<har, opts, exactMatches, pathMatches, passthrough, rpc, idx,
                   last, stats>>
    /\ UNCHANGED <<loginVars, parseVars, flatVars>>

\* one evaluation of followRedirects' loop condition and body
HFollow(h) ==
    /\ hs[h].pc = "follow"
    /\ LET s == redirectStep(hs[h].current)
       IN  IF ~(hs[h].i < maxRedirects) \/ s.done
           THEN hs' = [hs EXCEPT ![h].pc = "serve"]
           ELSE hs' = [hs EXCEPT ![h].current = s.entry, ![h].i = hs[h].i + 1]
    /\ UNCHANGED <<har, opts, exactMatches, pathMatches, passthrough, rpc, idx,
                   last, stats>>
    /\ UNCHANGED <<loginVars, parseVars, flatVars>>

\* Mutant: the resolved end of the redirect chain is memoised in the index
HServe_cache(h) ==
    /\ hs[h].pc = "serve"
    /\ hs' = [hs EXCEPT ![h].pc = "done",
                        ![h].out = Outcome(hs[h].reqURL, "recorded", hs[h].entry,
                                           hs[h].current,
                                           recordedPayload(hs[h].current))]
    /\ exactMatches' = mapPut(exactMatches, hs[h].reqURL, hs[h].current)
    /\ UNCHANGED <<har, opts, pathMatches, passthrough, rpc, idx, last, stats>>
    /\ UNCHANGED <<loginVars, parseVars, flatVars>>

\* the rest of serveRecordedResponse: build and set the payload
HServe(h) ==
    /\ hs[h].pc = "serve"
    /\ hs' = [hs EXCEPT ![h].pc = "done",
                        ![h].out = Outcome(hs[h].reqURL, "recorded", hs[h].entry,
                                           hs[h].current,
                                           recordedPayload(hs[h].current))]
    /\ UNCHANGED <<har, opts, exactMatches, pathMatches, passthrough, rpc, idx,
                   last, stats>>
    /\ UNCHANGED <<loginVars, parseVars, flatVars>>

\* Stats()
Stats ==
    /\ rpc = "ready"
    /\ stats' = [exact_matches |-> Cardinality(DOMAIN exactMatches),
                 path_matches  |-> Cardinality(DOMAIN pathMatches)]
    /\ UNCHANGED <<har, opts, exactMatches, pathMatches, passthrough, rpc, idx,
                   last, hs>>
    /\ UNCHANGED <<loginVars, parseVars, flatVars>>

InitConc == InitReplay(ConcLogs) /\ LoginIdle /\ ParseIdle /\ FlattenIdle

NextConc ==
    \/ NewReplayer
    \/ IndexEntry
    \/ \E h \in Handlers : HStart(h) \/ HLookup(h) \/ HFollow(h) \/ HServe(h)
    \/ Stats

\* SpecLogin: one Login call; no replayer is involved
InitLoginOnly ==
    InitReplay({<<>>}) /\ opts = <<>> /\ InitLogin /\ ParseIdle /\ FlattenIdle

SpecLogin == InitLoginOnly /\ [][NextLogin]_vars

SpecConc == InitConc /\ [][NextConc]_vars

\* SpecParse: one call of a parser on a page
InitParseOnly ==
    InitReplay({<<>>}) /\ opts = <<>> /\ LoginIdle /\ InitParse /\ FlattenIdle

SpecParse == InitParseOnly /\ [][NextParse]_vars

\* SpecFlatten: one call of the flattener on a loaded page
InitFlattenOnly ==
    InitReplay({<<>>}) /\ opts = <<>> /\ LoginIdle /\ ParseIdle /\ InitFlatten

SpecFlatten == InitFlattenOnly /\ [][NextFlatten]_vars

(***************************************************************************)
(* Vocabulary of the replay claims, stated on the HAR log itself (not on   *)
(* the two indexes).                                                       *)
(***************************************************************************)
Entries == 1..Len(har)

sameURL(i, u)  == har[i].url = u
samePath(i, u) == Parses(u) /\ Parses(har[i].url) /\ pathKey(har[i].url) = pathKey(u)

recordedExactly(u) == \E i \in Entries : sameURL(i, u)
recordedByPath(u)  == \E i \in Entries : samePath(i, u)

Min(S) == CHOOSE x \in S : \A y \in S : x <= y
Max(S) == CHOOSE x \in S : \A y \in S : x >= y

\* the entry a URL resolves to in the fixture set: exact, else coarse
targetOf(u) ==
    IF recordedExactly(u) THEN Max({i \in Entries : sameURL(i, u)})
    ELSE Min({i \in Entries : samePath(i, u)})

hasLocation(e) == \E k \in 1..Len(har[e].Headers) :
                      ToLower(har[e].Headers[k].name) = "location"
locationOf(e) ==
    har[e].Headers[Min({k \in 1..Len(har[e].Headers) :
                           ToLower(har[e].Headers[k].name) = "location"})].value

\* e is a 3xx entry with a Location header whose URL is in the fixture set
resolvable(e) ==
    /\ har[e].Status \in 300..399
    /\ hasLocation(e)
    /\ recordedExactly(locationOf(e)) \/ recordedByPath(locationOf(e))

\* the entry n hops down the redirect chain of e; 0 when the chain is shorter
RECURSIVE nthHop(_, _)
nthHop(e, n) ==
    IF n = 0 THEN e
    ELSE IF resolvable(e) THEN nthHop(targetOf(locationOf(e)), n - 1)
    ELSE 0

\* the redirect chain of e has exactly n hops and ends at nthHop(e, n)
chainEndsAfter(e, n) == nthHop(e, n) # 0 /\ ~resolvable(nthHop(e, n))

handled == last.kind # "none"

\* C1 (as stated): when the matched entry is a 3xx whose Location is in the
\* fixture set, then for every redirect chain of at most 10 hops the served
\* response is the final entry of the chain and its status is not 3xx.
C1_FinalNeverRedirect ==
    (handled /\ last.kind = "recorded" /\ resolvable(last.matched)) =>
        \A n \in 1..10 :
            chainEndsAfter(last.matched, n) =>
                /\ last.served = nthHop(last.matched, n)
                /\ last.payload.ResponseCode \notin 300..399

\* C1 (amended): under the same precondition, for every redirect chain of at
\* most 10 hops the served response is the final entry of the chain, with
\* that entry's status; the status is not 3xx whenever the chain ends at a
\* non-redirect entry (a chain ending at a 3xx entry whose Location is
\* missing, empty or unrecorded serves that 3xx entry).
C1_ServesChainEnd ==
    (handled /\ last.kind = "recorded" /\ resolvable(last.matched)) =>
        \A n \in 1..10 :
            chainEndsAfter(last.matched, n) =>
                LET f == nthHop(last.matched, n)
                IN  /\ last.served = f
                    /\ last.payload.ResponseCode = har[f].Status
                    /\ har[f].Status \notin 300..399
                         => last.payload.ResponseCode \notin 300..399

\* a chain of exactly 10 hops was resolved to its non-redirect end
C1_Witness ==
    /\ last.kind = "recorded"
    /\ resolvable(last.matched)
    /\ chainEndsAfter(last.matched, 10)
    /\ last.served = nthHop(last.matched, 10)
    /\ last.payload.ResponseCode = 200

\* C2: a request whose full URL equals the URL of a recorded entry selects
\* an entry recorded under exactly that URL.
C2_ExactMatchWins ==
    (handled /\ recordedExactly(last.url)) =>
        /\ last.kind = "recorded"
        /\ sameURL(last.matched, last.url)

\* an entry with the same path and another query was recorded earlier
C2_Witness ==
    /\ last.kind = "recorded"
    /\ sameURL(last.matched, last.url)
    /\ \E j \in Entries : /\ j < last.matched
                          /\ samePath(j, last.url)
                          /\ ~sameURL(j, last.url)

\* C3: with no entry under the request's full URL, the first entry in
\* recording order with the request's scheme+host+path is selected, and at
\* every moment of indexing and afterwards each coarse-index slot holds the
\* first entry recorded for its key (a later entry never replaces it).
C3_FirstPathMatch ==
    /\ (handled /\ ~recordedExactly(last.url) /\ recordedByPath(last.url)) =>
          /\ last.kind = "recorded"
          /\ last.matched = Min({i \in Entries : samePath(i, last.url)})
    /\ \A k \in DOMAIN pathMatches :
          pathMatches[k] = Min({i \in Entries : Parses(har[i].url)
                                                  /\ pathKey(har[i].url) = k})

\* two entries share the request's path, neither has its URL; the first won
C3_Witness ==
    /\ last.kind = "recorded"
    /\ ~recordedExactly(last.url)
    /\ \E j \in Entries : j > last.matched /\ samePath(j, last.url)
    /\ samePath(last.matched, last.url)

\* passthrough was enabled at construction
passthroughEnabled ==
    \E k \in 1..Len(opts) :
        /\ opts[k] = WithPassthrough(TRUE)
        /\ \A j \in (k + 1)..Len(opts) : opts[j].opt # "passthrough"

\* C4: a request matching no entry (neither exactly nor by path) is, unless
\* passthrough was enabled at construction, answered with a synthesized 404
\* and not forwarded; a request is forwarded to the network only when
\* passthrough was enabled (and nothing matched).
C4_UnmatchedIs404 ==
    handled =>
        /\ (~recordedExactly(last.url) /\ ~recordedByPath(last.url)
              /\ ~passthroughEnabled)
             => (last.kind = "notfound" /\ last.payload.ResponseCode = 404)
        /\ last.kind = "network" =>
              (passthroughEnabled /\ ~recordedExactly(last.url)
                 /\ ~recordedByPath(last.url))

\* an unmatched request answered 404 although a log was loaded
C4_Witness ==
    /\ last.kind = "notfound"
    /\ last.payload.ResponseCode = 404
    /\ Len(har) > 0
    /\ ~passthroughEnabled

finished(h) == hs[h].pc = "done"

\* C5 (as stated): the response to a request depends only on the fixture
\* set and the request's URL: any two finished handler calls for the same
\* URL, whatever was handled before or beside them, carry the same status,
\* headers and body.
C5_SameURLSameResponse ==
    \A g, h \in Handlers :
        (finished(g) /\ finished(h) /\ hs[g].reqURL = hs[h].reqURL)
            => hs[g].out.payload = hs[h].out.payload

\* C5 (amended): the same, for every request that the fixture set matches
\* and for every request when passthrough is disabled; an unmatched request
\* that is passed through gets whatever the live network answers.
C5_ReplayedSameResponse ==
    \A g, h \in Handlers :
        (finished(g) /\ finished(h) /\ hs[g].reqURL = hs[h].reqURL)
            => /\ hs[g].out.kind = hs[h].out.kind
               /\ hs[g].out.kind # "network"
                    => hs[g].out.payload = hs[h].out.payload

\* two calls for one URL finished with the replayed end of a redirect chain
C5_Witness ==
    \E g, h \in Handlers :
        /\ g # h /\ finished(g) /\ finished(h)
        /\ hs[g].reqURL = hs[h].reqURL
        /\ hs[g].out.kind = "recorded"
        /\ hs[g].out.served # hs[g].out.matched
        /\ hs[g].out.payload = hs[h].out.payload

\* C6: once NewReplayer has returned, no step of a handler call (lookup,
\* followRedirects, serveRecordedResponse, serveNotFound) and no Stats call
\* changes the log or either index, and under every interleaving a finished
\* call holds the outcome the handler yields for its URL when run alone.
C6_IndexImmutable ==
    /\ [][rpc = "ready" =>
            /\ har' = har
            /\ exactMatches' = exactMatches
            /\ pathMatches' = pathMatches
            /\ passthrough' = passthrough]_vars
    /\ [](\A h \in Handlers :
            finished(h) => hs[h].out = Middleware(hs[h].reqURL, hs[h].out.payload))

\* one call has finished with a recorded response while another is in the
\* middle of a redirect chain and Stats has been called
C6_Witness ==
    \E g, h \in Handlers :
        /\ finished(g) /\ hs[g].out.kind = "recorded"
        /\ hs[h].pc = "follow" /\ hs[h].i > 0
        /\ stats.exact_matches > 0

(***************************************************************************)
(* Vocabulary of the login claims.                                         *)
(***************************************************************************)
\* DetectLoginError has been called: detectArg is the captured status of
\* the login submission
classified == detectArg # -1

isBlank(t) == \A k \in 1..Len(t) : t[k] = " "

\* t is s without its leading and trailing spaces
isTrimOf(t, s) ==
    /\ \E a, b \in 0..Len(s) :
          /\ a + Len(t) + b = Len(s)
          /\ \A k \in 1..Len(s) :
                IF k <= a \/ k > a + Len(t) THEN s[k] = " " ELSE s[k] = t[k - a]
    /\ t # <<>> => (t[1] # " " /\ t[Len(t)] # " ")

statusClassFailure == detectArg \in {403, 503, 429}

\* the markup holds an error code block or an error message
hasErrorBlock == ~isBlank(html.code) \/ ~isBlank(html.span) \/ ~isBlank(html.title)

failedWith(cause) ==
    /\ ret.returned
    /\ ret.session.nil
    /\ ret.err.type = "ScraperError"
    /\ ret.err.Cause = cause

\* C7: a captured submission status of 503 or 429 makes Login fail with
\* cause ErrBankUnavailable.
C7_OutageIsBankUnavailable ==
    (classified /\ detectArg \in {503, 429}) => failedWith("ErrBankUnavailable")

C9_ErrorBlockIsInvalidCredentials ==
    (classified /\ ~statusClassFailure /\ hasErrorBlock) =>
        /\ ~loginErr.nil
        /\ isTrimOf(loginErr.Code, html.code)
        /\ isTrimOf(loginErr.Message,
                    IF isBlank(html.span) THEN html.title ELSE html.span)
        /\ loginErr.HTTPStatus = detectArg
        /\ failedWith("ErrInvalidCredentials")

\* status 200, a padded code, a blank span and the message in the title
C9_Witness ==
    /\ classified /\ detectArg = 200
    /\ html.code = <<" ", "x">>
    /\ html.span = <<" ">>
    /\ html.title = <<"x", " ">>
    /\ loginErr = LoginErrorInfo(<<"x">>, <<"x">>, 200)
    /\ failedWith("ErrInvalidCredentials")

\* C10: with a status other than 403, 503 and 429, markup without error
\* code or message, and the dashboard marker absent once the DOM has
\* stabilized, Login fails with cause ErrUnknown, never with
\* ErrInvalidCredentials.
C10_NoMarkerIsUnknown ==
    (classified /\ ~statusClassFailure /\ ~hasErrorBlock /\ dashboard = "absent") =>
        /\ failedWith("ErrUnknown")
        /\ ret.err.Cause # "ErrInvalidCredentials"

\* a redirect status, blank markup and no dashboard
C10_Witness ==
    /\ classified /\ detectArg = 302
    /\ html.span = <<" ", " ">>
    /\ ~hasErrorBlock
    /\ dashboard = "absent"
    /\ failedWith("ErrUnknown")
(***************************************************************************)
(* Claims about the course of one Login call.                              *)
(***************************************************************************)

\* C11: while Login stays at one statement, the captured status changes
\* only in a step in which the router handles a response to a request whose
\* path contains the form-submission endpoint (any other response, whatever
\* was handled before it, leaves it unchanged), and DetectLoginError is
\* handed the status of the latest response to the submission.
C11_OnlySubmissionSetsStatus ==
    [][/\ (statusCode' # statusCode /\ lpc' = lpc) => evt'.servlet
       /\ (detectArg' # detectArg /\ submission # -1) => detectArg' = submission]_vars

\* a tracking response was handled after the submission answered 403, and
\* the classifier was then handed 403
C11_Witness ==
    /\ classified
    /\ ~evt.servlet
    /\ submission = 403
    /\ detectArg = 403
    /\ lpc = "landing" \/ ret.returned

\* C12: a Login call that returns an error returns no session, and the
\* stored session changes only in the step that returns a nil error: that
\* step stores the session it returns, whose bank code is BBVA and whose
\* expiry is non-zero and ten minutes past its creation.
C12_SessionOnlyOnSuccess ==
    /\ [][session' # session =>
            /\ ~ret.returned /\ ret'.returned
            /\ ret'.err = NilError
            /\ session' = ret'.session]_vars
    /\ [](ret.returned =>
            IF ret.err = NilError
            THEN /\ ~ret.session.nil
                 /\ session = ret.session
                 /\ ret.session.BankCode = "BBVA"
                 /\ ret.session.ExpiresAt # 0
                 /\ ret.session.ExpiresAt = ret.session.ID[2] + 10
            ELSE /\ ret.session.nil
                 /\ session \in {NilSession, OldSession})

\* a successful call replaced the session of an earlier call
C12_Witness ==
    /\ ret.returned
    /\ ret.err = NilError
    /\ session = ret.session
    /\ session # OldSession
    /\ dashboard = "present"

\* causes of the error taxonomy
Taxonomy == {"ErrParsingFailed", "ErrInvalidCredentials", "ErrSessionExpired",
             "ErrBotDetection", "ErrBankUnavailable", "ErrTimeout", "ErrUnknown"}

\* C13: whatever step of Login fails, the returned error is a ScraperError
\* with bank code BBVA, operation Login, a cause of the error taxonomy and a
\* detail text.
C13_EveryErrorIsScraperError ==
    (ret.returned /\ ret.err # NilError) =>
        /\ ret.err.type = "ScraperError"
        /\ ret.err.BankCode = "BBVA"
        /\ ret.err.Operation = "Login"
        /\ ret.err.Cause \in Taxonomy
        /\ ret.err.Details # ""

\* C14: one Login call clicks the login button at most once, and once the
\* call has returned, whatever its outcome, no further click follows.
C14_SingleSubmission ==
    /\ [](submitted <= 1)
    /\ [][ret.returned => submitted' = submitted]_vars

\* the one submission was rejected and the call returned
C14_Witness ==
    /\ submitted = 1
    /\ ret.returned
    /\ ret.err.Cause \in {"ErrInvalidCredentials", "ErrBotDetection"}

\* C15: when a blocking page operation of Login ends because the timeout
\* elapsed, Login fails with cause ErrTimeout: it does not succeed and does
\* not report another cause.
C15_TimeoutIsErrTimeout ==
    (ret.returned /\ page = "closed" /\ ret.why = "timeout") =>
        /\ ret.session.nil
        /\ ret.err.type = "ScraperError"
        /\ ret.err.Cause = "ErrTimeout"

\* C16: once ctx is cancelled during a page operation, Login returns an
\* error and no session, stores no session, and the page is closed.
C16_CancelAbortsLogin ==
    (ctx = "cancelled" /\ lpc = "done") =>
        /\ ret.returned
        /\ ret.err # NilError
        /\ ret.session.nil
        /\ session \in {NilSession, OldSession}
        /\ page = "closed"

(***************************************************************************)
(* Vocabulary of the parser claims, stated on the page.                    *)
(***************************************************************************)
parsedTransactions == ppc = "done" /\ pin.fn = "ParseTransactions"

parsedAccounts == ppc = "done" /\ pin.fn = "ParseAccountBalances"

\* the transactions container is present with state exactly "noresults"
noResultsState ==
    /\ pin.doc.table
    /\ pin.doc.state.found
    /\ pin.doc.state.val = <<"noresults">>

\* a row whose amount holds no digit cannot be parsed
unparsableRow(r) == \A k \in 1..Len(r.importe) : r.importe[k] \notin Digits

emptySuccess ==
    /\ pret.kind = "return"
    /\ pret.err.nil
    /\ ~pret.isNil
    /\ pret.list = <<>>

failedParsing ==
    /\ pret.kind = "return"
    /\ pret.isNil
    /\ pret.list = <<>>
    /\ ~pret.err.nil
    /\ pret.err.wraps = "ErrParsingFailed"

RECURSIVE rowsIn(_)
rowsIn(tables) ==
    IF tables = <<>> THEN 0 ELSE Len(Head(tables).rows) + rowsIn(Tail(tables))

cardsWithAmount(cards) ==
    Cardinality({k \in 1..Len(cards) : cards[k].amount.found /\ cards[k].amount.val # <<>>})

\* C17: when a row of a transactions page that is not in the no-results
\* state cannot be parsed, ParseTransactions returns a nil list and an error
\* that wraps ErrParsingFailed and names the index of the first such row.
C17_BadRowFailsWholeCall ==
    (/\ parsedTransactions
     /\ pin.doc.table
     /\ ~noResultsState
     /\ \E i \in 1..Len(pin.doc.rows) : unparsableRow(pin.doc.rows[i])) =>
        /\ failedParsing
        /\ \E i \in 1..Len(pin.doc.rows) :
              /\ unparsableRow(pin.doc.rows[i])
              /\ \A k \in 1..(i - 1) : ~unparsableRow(pin.doc.rows[k])
              /\ pret.err.at = <<i - 1>>

\* C18: on a page whose transactions container is present with state
\* exactly "noresults", ParseTransactions returns an empty non-nil list and
\* a nil error without handing any row to the row parser; the page counts as
\* being in the no-results state in that case only (not with the attribute
\* absent, empty or different, nor with the container absent).
C18_NoResultsIsEmptySuccess ==
    parsedTransactions =>
        /\ noResultsState => (emptySuccess /\ pret.trace.parsed = 0)
        /\ pret.trace.noMovements <=> noResultsState

\* a no-results page that still holds rows
C18_Witness ==
    /\ parsedTransactions
    /\ noResultsState
    /\ Len(pin.doc.rows) = 2
    /\ emptySuccess
    /\ pret.trace.noMovements

\* C19: ParseTransactions returns an empty list and a nil error only for a
\* page in the no-results state.
C19_EmptyOnlyWhenNoResults ==
    (parsedTransactions /\ pret.kind = "return" /\ pret.err.nil /\ pret.list = <<>>)
        => noResultsState

\* C20: ParseAccountBalances uses the list-view parser whenever the page
\* holds a list-view container (a successful result then has one balance
\* per account row), the tile-view parser when it holds none but holds a
\* card (one balance per card with an amount), and returns a nil list and
\* an error wrapping ErrParsingFailed when it holds neither.
C20_ListViewFirst ==
    parsedAccounts =>
        LET tables == pin.doc.tables
            cards  == pin.doc.cards
        IN  /\ pret.kind = "return"
            /\ Len(tables) > 0 =>
                  /\ pret.trace = "list"
                  /\ pret.err.nil => Len(pret.list) = rowsIn(tables)
            /\ (Len(tables) = 0 /\ Len(cards) > 0) =>
                  /\ pret.trace = "tile"
                  /\ pret.err.nil => Len(pret.list) = cardsWithAmount(cards)
            /\ (Len(tables) = 0 /\ Len(cards) = 0) =>
                  (pret.trace = "none" /\ failedParsing)

\* a page with a list-view container and a card with an amount, parsed as a
\* list view
C20_Witness ==
    /\ parsedAccounts
    /\ Len(pin.doc.tables) = 1
    /\ Len(pin.doc.tables[1].rows) = 2
    /\ cardsWithAmount(pin.doc.cards) = 1
    /\ pret.err.nil
    /\ Len(pret.list) = 2
    /\ pret.trace = "list"

\* the cents the amounts of the model's pages stand for: 1,020.5 and - 3.07
centsOfText(t) == IF t = AmountOK THEN 102050 ELSE 0 - 307

codeCurrency(v) == IF v = <<"PEN">> THEN "PEN" ELSE "USD"

symbolCurrency(v) == IF v = <<"S/">> THEN "PEN" ELSE "USD"

hasAmount(card) == card.amount.found /\ card.amount.val # <<>>

succeededWith(view) ==
    /\ parsedAccounts
    /\ pret.kind = "return"
    /\ pret.err.nil
    /\ pret.trace = view

\* C21: a successful list-view parse returns, in page order, one Balance
\* per account row, holding the row's account id, the cents of its
\* available and of its booked amount and the currency of its table; a
\* successful tile-view parse returns, in page order, one Balance per card
\* with an amount, holding the cents of that amount as available balance
\* and 0 as booked balance.
C21_OneBalancePerRow ==
    LET tables == pin.doc.tables
        cards  == pin.doc.cards
        withAmount == {k \in 1..Len(cards) : hasAmount(cards[k])}
    IN  /\ succeededWith("list") =>
              /\ Len(pret.list) = rowsIn(tables)
              /\ \A i \in 1..Len(tables) : \A j \in 1..Len(tables[i].rows) :
                    LET b == pret.list[rowsIn(SubSeq(tables, 1, i - 1)) + j]
                        r == tables[i].rows[j]
                    IN  /\ b.AccountID = (IF r.text.found THEN r.text.val ELSE <<>>)
                        /\ b.AvailableBalance = centsOfText(r.avail.val)
                        /\ b.CurrentBalance = centsOfText(r.acct.val)
                        /\ b.Currency = codeCurrency(tables[i].currency.val)
        /\ succeededWith("tile") =>
              /\ Len(pret.list) = Cardinality(withAmount)
              /\ \A k \in withAmount :
                    LET b == pret.list[Cardinality({m \in withAmount : m <= k})]
                    IN  /\ b.AccountID = cards[k].id.val
                        /\ b.AvailableBalance = centsOfText(cards[k].amount.val)
                        /\ b.CurrentBalance = 0
                        /\ b.Currency = symbolCurrency(cards[k].symbol.val)

\* a USD table with one row after a PEN table with two, all parsed
C21_Witness ==
    /\ succeededWith("list")
    /\ Len(pin.doc.tables) = 2
    /\ Len(pin.doc.tables[1].rows) = 2
    /\ Len(pret.list) = 3
    /\ pret.list[3].Currency = "USD"
    /\ pret.list[3].AvailableBalance # pret.list[3].CurrentBalance

\* C22: a list-view table whose currency code is not PEN or USD, and a
\* tile-view card with an amount whose currency symbol is not S/ or $ (the
\* empty text, a symbol for a code and a code for a symbol included), make
\* ParseAccountBalances fail, and every Balance it returns has currency PEN
\* or USD.
C22_CurrencyNeverGuessed ==
    parsedAccounts =>
        LET tables == pin.doc.tables
            cards  == pin.doc.cards
        IN  /\ pret.kind = "return"
            /\ \A k \in 1..Len(pret.list) : pret.list[k].Currency \in {"PEN", "USD"}
            /\ (/\ pret.trace = "list"
                /\ \E i \in 1..Len(tables) :
                      tables[i].currency.val \notin {<<"PEN">>, <<"USD">>}) => failedParsing
            /\ (/\ pret.trace = "tile"
                /\ \E k \in 1..Len(cards) :
                      /\ hasAmount(cards[k])
                      /\ cards[k].symbol.val \notin {<<"S/">>, <<"$">>}) => failedParsing

\* a card after a good one carries the code PEN where a symbol is expected
C22_Witness ==
    /\ parsedAccounts
    /\ pret.trace = "tile"
    /\ Len(pin.doc.cards) = 2
    /\ hasAmount(pin.doc.cards[1])
    /\ pin.doc.cards[1].symbol.val = <<"S/">>
    /\ pin.doc.cards[1].amount.val = AmountOK
    /\ hasAmount(pin.doc.cards[2])
    /\ pin.doc.cards[2].amount.val = AmountOK
    /\ pin.doc.cards[2].symbol.val = <<"PEN">>
    /\ failedParsing

\* an amount attribute that is absent, empty or no number
badAmount(a) == ~a.found \/ a.val = <<>> \/ a.val = AmountBad

\* C23: when the parser in use meets a list-view table without currency
\* attribute, a list-view row whose available or booked amount is missing
\* or no number, or a tile card with an amount that is no number or with an
\* unknown currency symbol, ParseAccountBalances returns a nil list and an
\* error wrapping ErrParsingFailed, whatever was parsed before that element.
C23_AnyBadElementFailsAll ==
    parsedAccounts =>
        LET tables == pin.doc.tables
            cards  == pin.doc.cards
        IN  /\ (/\ pret.trace = "list"
                /\ \E i \in 1..Len(tables) :
                      \/ ~tables[i].currency.found
                      \/ \E j \in 1..Len(tables[i].rows) :
                            \/ badAmount(tables[i].rows[j].avail)
                            \/ badAmount(tables[i].rows[j].acct)) => failedParsing
            /\ (/\ pret.trace = "tile"
                /\ \E k \in 1..Len(cards) :
                      /\ hasAmount(cards[k])
                      /\ \/ cards[k].amount.val = AmountBad
                         \/ cards[k].symbol.val \notin {<<"S/">>, <<"$">>}) => failedParsing

\* the second row of the first table lacks its booked amount
C23_Witness ==
    /\ parsedAccounts
    /\ Len(pin.doc.tables) = 1
    /\ Len(pin.doc.tables[1].rows) = 2
    /\ ~badAmount(pin.doc.tables[1].rows[1].avail)
    /\ ~badAmount(pin.doc.tables[1].rows[1].acct)
    /\ pin.doc.tables[1].rows[2].acct = Attr(<<>>)
    /\ failedParsing
    /\ pret.err.at = <<0, 1>>

converted == ppc = "done" /\ pin.fn = "ToTransaction"

\* C24: for every raw amount of the int64 range, the Amount of the
\* Transaction made by ToTransaction is non-negative and is the absolute
\* value of the raw amount.
C24_AmountIsAbsoluteValue ==
    converted =>
        LET raw == pin.doc.Importe
            txn == pret.list[1]
        IN  /\ txn.Amount >= 0
            /\ txn.Amount = (IF raw < 0 THEN 0 - raw ELSE raw)

(***************************************************************************)
(* The flattener: vocabulary of the claims.                                *)
(***************************************************************************)
\* the script ran to its end and its value came back
flattened == fpc = "done" /\ fin.calls.eval = "ok"

\* the children of the body of a document
bodyOf(documentElement) == documentElement.childNodes[2].childNodes

RECURSIVE nodesOf(_)
\* these nodes and everything below them: light-DOM children, shadow
\* children and the documents of iframes
nodesOf(nodes) ==
    IF nodes = <<>> THEN {}
    ELSE LET n == Head(nodes)
         IN  {n} \cup nodesOf(n.childNodes)
                 \cup (IF n.shadowRoot = <<>> THEN {} ELSE nodesOf(n.shadowRoot[1]))
                 \cup nodesOf(n.content.root)
                 \cup nodesOf(Tail(nodes))

RECURSIVE elementsIn(_)
\* how many elements there are among these nodes and below them
elementsIn(nodes) ==
    IF nodes = <<>> THEN 0
    ELSE LET n == Head(nodes)
         IN  (IF isElement(n) THEN n.levels ELSE 0)
             + elementsIn(n.childNodes)
             + (IF n.shadowRoot = <<>> THEN 0 ELSE elementsIn(n.shadowRoot[1]))
             + elementsIn(n.content.root)
             + elementsIn(Tail(nodes))

isHost(n) == n.shadowRoot # <<>>

\* a container the flattener created
isMarker(n) == n.data.kind \in {"shadow-root", "captured-iframe"}

\* the page has neither a shadow root nor an iframe
plainPage ==
    \A n \in nodesOf(<<fin.doc>>) : ~isHost(n) /\ n.tagName # "IFRAME"

\* the traversal never came to the depth ceiling
belowCeiling == fret.history.refused = 0

\* the light-DOM children a host had before its marker was appended
lightChildren(host) ==
    IF hasMarker(host)
    THEN SubSeq(host.childNodes, 1, Len(host.childNodes) - 1)
    ELSE host.childNodes

\* C25: on a page that stays below the depth ceiling, every light-DOM child
\* of a flattened shadow host that is itself a shadow host has its own
\* marker, and both shadow roots are counted.
C25_LightDOMHostsFlattened ==
    (flattened /\ belowCeiling) =>
        \A h \in nodesOf(<<fret.dom>>) :
            (isHost(h) /\ hasMarker(h)) =>
                \A i \in 1..Len(lightChildren(h)) :
                    isHost(h.childNodes[i]) =>
                        /\ hasMarker(h.childNodes[i])
                        /\ fret.shadowCount >= 2

\* C26: flattening a page without shadow roots and iframes returns both
\* counts 0 and the markup of the page as it was, with no marker in it, and
\* leaves the document as it was.
C26_PlainPageUnchanged ==
    (flattened /\ plainPage) =>
        /\ fret.shadowCount = 0
        /\ fret.iframeCount = 0
        /\ fret.dom = fin.doc
        /\ fret.html = fin.doc
        /\ \A n \in nodesOf(<<fret.html>>) : ~isMarker(n)

C26_Witness ==
    /\ flattened
    /\ plainPage
    /\ \E n \in nodesOf(bodyOf(fin.doc)) : isElement(n) /\ n.childNodes # <<>>

\* C27: the pass ends after taking up each element of the page at most
\* once, takes up no element at a depth beyond MAX_DEPTH, makes no
\* container without taking an element up, and flattens the shadow hosts
\* among the children of the body, whether or not it turned back at the
\* ceiling elsewhere.
C27_DepthCeiling ==
    flattened =>
        /\ fret.history.top <= MAX_DEPTH
        /\ fret.history.calls <= elementsIn(<<fin.doc>>)
        /\ fret.shadowCount + fret.iframeCount <= fret.history.calls
        /\ \A i \in 1..Len(bodyOf(fin.doc)) :
               isHost(bodyOf(fin.doc)[i]) => hasMarker(bodyOf(fret.dom)[i])

\* a host at the ceiling is flattened, its shadow children are turned away,
\* and the host after the deep run is flattened as well
C27_Witness ==
    /\ flattened
    /\ fret.history.top = MAX_DEPTH
    /\ fret.history.refused > 0
    /\ fret.shadowCount = 2
    /\ \E n \in nodesOf(<<fret.dom>>) :
           isHost(n) /\ ~hasMarker(n) /\ n.tagName = "INNER-HOST"

\* an iframe whose document cannot be read
inaccessible(n) == n.tagName = "IFRAME" /\ n.content.access # "ok"

reasonFor(iframe) ==
    IF iframe.content.access = "throws" THEN "SecurityError"
    ELSE "no contentDocument available"

isErrorMarker(n) == n.data.kind = "captured-iframe" /\ n.data.error # ""

\* C28: an iframe among the children of the body whose document cannot be
\* read is replaced by an error marker with the reason and the iframe's
\* src; iframeCount counts no iframe that could not be read; the children
\* of the body after it are flattened all the same.  Every error marker
\* anywhere in the page carries a reason and a src.
C28_IframeErrorMarked ==
    flattened =>
        LET before == bodyOf(fin.doc)
            after  == bodyOf(fret.dom)
        IN  /\ Len(after) = Len(before)
            /\ \A i \in 1..Len(before) :
                   /\ inaccessible(before[i]) =>
                          /\ isErrorMarker(after[i])
                          /\ after[i].data.error = reasonFor(before[i])
                          /\ after[i].data.src = before[i].src
                   /\ isHost(before[i]) => hasMarker(after[i])
                   /\ (before[i].tagName = "IFRAME" /\ ~inaccessible(before[i]))
                          => (isMarker(after[i]) /\ ~isErrorMarker(after[i]))
            /\ fret.iframeCount <=
                   Cardinality({n \in nodesOf(<<fin.doc>>) :
                                   n.tagName = "IFRAME" /\ ~inaccessible(n)})
            /\ \A n \in nodesOf(<<fret.dom>>) :
                   isErrorMarker(n) =>
                       /\ n.data.src # ""
                       /\ n.data.error \in {"SecurityError",
                                             "no contentDocument available"}

\* a cross-origin iframe is marked, and the host after it is flattened
C28_Witness ==
    /\ flattened
    /\ Len(bodyOf(fin.doc)) = 2
    /\ bodyOf(fin.doc)[1].content.access = "throws"
    /\ isErrorMarker(bodyOf(fret.dom)[1])
    /\ hasMarker(bodyOf(fret.dom)[2])
    /\ fret.iframeCount = 0
    /\ fret.shadowCount = 1

RECURSIVE childrenKept(_, _, _)
\* Node by node, the nodes after the pass are the nodes before it: a text
\* node as it was, an element with its tag and id and with its children
\* kept in turn, a shadow host followed by nothing but its marker.  Where
\* spliced holds, a marker may stand at the place of an iframe; among the
\* children of a shadow root it always may.
childrenKept(before, after, spliced) ==
    /\ Len(after) = Len(before)
    /\ \A i \in 1..Len(before) :
           LET o == before[i]
               r == after[i]
           IN  \/ ~isElement(o) /\ r = o
               \/ /\ spliced
                  /\ o.tagName = "IFRAME"
                  /\ r.data.kind = "captured-iframe"
                  /\ r.data.src = o.src
               \/ /\ isElement(o)
                  /\ r.tagName = o.tagName
                  /\ r.id = o.id
                  /\ ~isMarker(r)
                  /\ childrenKept(o.childNodes, lightChildren(r), spliced)
                  /\ Len(r.childNodes) > Len(o.childNodes) =>
                         isHost(o) /\ Len(r.childNodes) = Len(o.childNodes) + 1
                  /\ isHost(o) =>
                         /\ isHost(r)
                         /\ childrenKept(o.shadowRoot[1], r.shadowRoot[1], TRUE)

\* C29, as claimed: every marker is appended to its host and no light-DOM
\* child of an element is replaced or removed.
C29_NothingReplaced ==
    flattened => childrenKept(<<fin.doc>>, <<fret.dom>>, FALSE)

\* C29, amended: a shadow marker is appended after the light-DOM children
\* of its host, which stay as they were and in their order; the only node
\* ever replaced is an iframe, and its marker stands at the iframe's place.
C29_OnlyIframesReplaced ==
    flattened => childrenKept(<<fin.doc>>, <<fret.dom>>, TRUE)

\* a host with a light-DOM child got its marker after that child, and an
\* iframe was replaced
C29_Witness ==
    /\ flattened
    /\ \E h \in nodesOf(<<fret.dom>>) :
           isHost(h) /\ hasMarker(h) /\ Len(h.childNodes) > 1
    /\ fret.iframeCount > 0

\* C30: on a page that stays below the depth ceiling, no iframe and no
\* shadow host without its marker lies inside a shadow tree or a
\* sub-document when that is serialized into its container.
C30_BottomUp ==
    (flattened /\ belowCeiling) => fret.history.unflattened = 0

fellBack == fpc = "done" /\ (fin.calls.eval # "ok" \/ ~fin.calls.decode)

\* C31: when the script cannot be run or its value cannot be decoded,
\* FlattenShadowDOM returns the markup of the page as it was before the
\* call, counts 0 and no error, or, when page.HTML fails as well, an error
\* with empty markup and counts 0.
C31_FallbackIsUnflattened ==
    fellBack =>
        /\ fout.shadowCount = 0
        /\ fout.iframeCount = 0
        /\ IF fin.calls.html
           THEN fout.err = "" /\ fout.html = outerHTML(fin.doc)
           ELSE fout.err # "" /\ fout.html = EmptyHTML

parsedAmount == ppc = "done" /\ pin.fn = "ParseSpanishAmount"

\* the whitespace characters of the texts
Whitespace == {" ", "\t", "\n"}

\* the text without its commas and whitespace characters
stripped(s) == SelectSeq(s, LAMBDA c : c # "," /\ c \notin Whitespace)

\* the text is an optional sign, then digits with at most one point
isDecimal(s) ==
    LET body == IF s # <<>> /\ s[1] \in {"-", "+"} THEN Tail(s) ELSE s
    IN  /\ \A k \in 1..Len(body) : body[k] \in Digits \cup {"."}
        /\ Cardinality({k \in 1..Len(body) : body[k] = "."}) <= 1
        /\ \E k \in 1..Len(body) : body[k] \in Digits

\* the thousandths a decimal text of at most three places stands for
thousandths(s) ==
    LET body   == IF s[1] \in {"-", "+"} THEN Tail(s) ELSE s
        points == {k \in 1..Len(body) : body[k] = "."}
        p      == IF points = {} THEN Len(body) + 1 ELSE CHOOSE k \in points : TRUE
        frac   == SubSeq(body, p + 1, Len(body))
        place(k) == IF k <= Len(frac) THEN DigitVal(frac[k]) ELSE 0
        n      == 1000 * digitsVal(SubSeq(body, 1, p - 1))
                    + 100 * place(1) + 10 * place(2) + place(3)
    IN  IF s[1] = "-" THEN 0 - n ELSE n

\* value * 100 rounded half-up: the greatest integer not above it plus 1/2
halfUpCents(s) == (thousandths(s) + 5) \div 10

\* C32: ParseSpanishAmount fails on every text without a digit once commas
\* and whitespace are removed, and gives every text that is then a decimal
\* number its value times 100, rounded half-up.
C32_CentsRoundedHalfUp ==
    parsedAmount =>
        LET text == stripped(pin.doc)
        IN  /\ (\A k \in 1..Len(text) : text[k] \notin Digits) => ~pret.err.nil
            /\ isDecimal(text) =>
                   (pret.err.nil /\ pret.list[1] = halfUpCents(text))

parsedDate == ppc = "done" /\ pin.fn = "ParseBankDate"

\* the text between the whitespace that surrounds it
surrounded(s) ==
    LET inked == {k \in 1..Len(s) : s[k] \notin {" ", "\t", "\n", "\r"}}
    IN  IF inked = {} THEN <<>>
        ELSE SubSeq(s, CHOOSE k \in inked : \A j \in inked : k <= j,
                       CHOOSE k \in inked : \A j \in inked : k >= j)

monthLength(m, y) ==
    CASE m \in {1, 3, 5, 7, 8, 10, 12} -> 31
      [] m \in {4, 6, 9, 11} -> 30
      [] m = 2 ->
           IF y % 400 = 0 THEN 29 ELSE IF y % 100 = 0 THEN 28
           ELSE IF y % 4 = 0 THEN 29 ELSE 28

\* the text is two digits, a hyphen, two digits, a hyphen and four digits
dayMonthYear(t) ==
    /\ Len(t) = 10
    /\ t[3] = "-" /\ t[6] = "-"
    /\ \A k \in {1, 2, 4, 5, 7, 8, 9, 10} : t[k] \in Digits

numberAt(t, from, to) == digitsVal(SubSeq(t, from, to))

\* the day, month and year written in the text are a day of the calendar
calendarDay(t) ==
    /\ numberAt(t, 4, 5) \in 1..12
    /\ numberAt(t, 1, 2) \in 1..monthLength(numberAt(t, 4, 5), numberAt(t, 7, 10))

\* C33: ParseBankDate succeeds exactly on the texts that, between their
\* surrounding whitespace, are a day of the calendar written as two-digit
\* day, hyphen, two-digit month, hyphen, four-digit year, and returns that
\* day at midnight UTC.
C33_DayMonthYearOnly ==
    parsedDate =>
        LET t == surrounded(pin.doc)
        IN  /\ pret.err.nil <=> (dayMonthYear(t) /\ calendarDay(t))
            /\ pret.err.nil =>
                   pret.list[1] = Date(numberAt(t, 7, 10), numberAt(t, 4, 5),
                                       numberAt(t, 1, 2), 0, 0, 0, "UTC")

\* a date of the layout with whitespace around it, and the 29th of
\* February of a leap year
C33_Witness ==
    /\ parsedDate
    /\ pret.err.nil
    /\ pin.doc # surrounded(pin.doc)
    /\ pret.list[1].day = 29 /\ pret.list[1].month = 2

\* the served entry lies n hops down the chain of the matched entry, and the
\* loop stopped there: the chain ends at it, or n is the hop limit
stoppedAfter(n) ==
    /\ last.served = nthHop(last.matched, n)
    /\ n < maxRedirects => ~resolvable(last.served)

\* the redirect entries reachable from e lead back to e
cyclic(e) == \E k \in 1..maxRedirects : nthHop(e, k) = e

\* C34: followRedirects stops after at most 10 hops for every fixture set and
\* returns an entry of the fixture set; when the redirect entries form a
\* cycle or a chain of more than 10 hops, the entry reached after the tenth
\* hop is served.
C34_TenHopsAtMost ==
    last.kind = "recorded" =>
        /\ last.served \in Entries
        /\ \E n \in 0..maxRedirects : stoppedAfter(n)
        /\ nthHop(last.matched, maxRedirects) # 0 =>
               last.served = nthHop(last.matched, maxRedirects)

\* a request matched an entry of a redirect cycle and was served the entry
\* ten hops further on, itself a redirect
C34_Witness ==
    /\ last.kind = "recorded"
    /\ cyclic(last.matched)
    /\ last.served = nthHop(last.matched, maxRedirects)
    /\ resolvable(last.served)

\* Login returned a session
loggedIn == ret.returned /\ ~ret.session.nil

\* Login returned an error without looking for the dashboard marker
failedUnlanded == ret.returned /\ ret.session.nil /\ dashboard = "unchecked"

\* C35: Login returns a session only if the captured submission status is
\* none of 403, 503 and 429, the markup holds no error code or error message
\* block, and the dashboard marker is present.  A status-class failure is
\* decided before the markup is consulted (the error carries the fixed
\* message of the status class and nothing of the markup), and an error
\* block makes Login fail before the dashboard marker is looked for.
C35_SessionOnlyIfAllThree ==
    /\ loggedIn =>
          /\ classified /\ ~statusClassFailure
          /\ ~hasErrorBlock
          /\ dashboard = "present"
    /\ (classified /\ statusClassFailure) =>
          /\ loginErr.Code = <<>>
          /\ loginErr.Message = IF detectArg = 403 THEN MsgForbidden ELSE MsgUnavailable
          /\ failedUnlanded
    /\ (classified /\ hasErrorBlock) => failedUnlanded

\* the submission answered 200, the error blocks of the landing page hold
\* blanks only, the dashboard marker was found and a session returned
C35_Witness ==
    /\ loggedIn
    /\ submission = 200 /\ detectArg = 200
    /\ html = Markup(<<" ">>, <<" ", " ">>, <<>>)
    /\ dashboard = "present"

\* browser.Page succeeded in this call
pageCreated == page # "none"

\* C36: whenever Login has returned after creating the page, by the success
\* path or by any error path, the request-hijack router is stopped and the
\* page is closed; from the return on the router handles no further
\* response and neither the router nor the page changes.
C36_RouterAndPageReleased ==
    /\ [](ret.returned /\ pageCreated => router = "stopped" /\ page = "closed")
    /\ [][ret.returned => UNCHANGED <<router, page, statusCode, evt>>]_vars

\* Login failed at the post-login load, after the router had handled the
\* response to the submission, and released the router and the page
C36_Witness ==
    /\ ret.returned
    /\ ret.err = ScraperError("ErrBankUnavailable", "post-login load failed")
    /\ submission # -1
    /\ router = "stopped" /\ page = "closed"

\* the entries NewReplayer has indexed so far
indexed == IF rpc = "ready" THEN Entries
           ELSE IF rpc = "index" THEN 1..(idx - 1) ELSE {}

\* the indexed recordings of the full URL of entry i, and of its
\* scheme+host+path
recordingsOf(i) == {j \in indexed : har[j].url = har[i].url}
coarseRecordingsOf(i) ==
    {j \in indexed : Parses(har[j].url) /\ pathKey(har[j].url) = pathKey(har[i].url)}

\* C37 (as stated): when several recorded entries share a full URL, the
\* exact-URL index keeps the last one recorded and the coarse index keeps,
\* for the same scheme+host+path, the first one recorded; a request with
\* that exact URL is served the last recording of the URL.
C37_ExactServesLast ==
    /\ \A i \in indexed :
          /\ exactMatches[har[i].url] = Max(recordingsOf(i))
          /\ Parses(har[i].url) =>
                pathMatches[pathKey(har[i].url)] = Min(coarseRecordingsOf(i))
    /\ (handled /\ recordedExactly(last.url)) =>
          last.served = Max({i \in Entries : sameURL(i, last.url)})

\* C37 (amended): the same two indexes; a request with that exact URL
\* selects the last recording of the URL and is served it, unless that
\* recording is a redirect to a recorded URL, whose redirect chain is then
\* followed.
C37_ExactKeepsLastCoarseFirst ==
    /\ \A i \in indexed :
          /\ exactMatches[har[i].url] = Max(recordingsOf(i))
          /\ Parses(har[i].url) =>
                pathMatches[pathKey(har[i].url)] = Min(coarseRecordingsOf(i))
    /\ (handled /\ recordedExactly(last.url)) =>
          /\ last.matched = Max({i \in Entries : sameURL(i, last.url)})
          /\ last.served = followRedirects(last.matched)
          /\ ~resolvable(last.matched) => last.served = last.matched

\* a URL recorded twice with different responses: the request was served
\* the second recording while the coarse index holds the first
C37_Witness ==
    /\ last.kind = "recorded"
    /\ Len(har) = 2
    /\ har[1].url = last.url /\ har[2].url = last.url
    /\ har[1].Status # har[2].Status
    /\ last.matched = 2 /\ last.served = 2
    /\ exactMatches[last.url] = 2
    /\ pathMatches[pathKey(last.url)] = 1

\* two finished handler calls for requests with one URL
sameRequestURL(g, h) ==
    finished(g) /\ finished(h) /\ hs[g].req.url = hs[h].req.url

\* C38 (as stated): two intercepted requests with the same URL receive the
\* same response whatever their method, headers and body (the credentials
\* of a form submission among them).
C38_URLAloneDecides ==
    \A g, h \in Handlers :
        sameRequestURL(g, h) => hs[g].out = hs[h].out

\* C38 (amended): two intercepted requests with the same URL select the
\* same recorded entry, or both none, whatever their method, headers and
\* body, and receive the same response when it comes from the fixture set
\* (a recording or the synthesized 404); an unmatched request forwarded in
\* passthrough mode receives what the live network answers.
C38_ReplayByURLAlone ==
    \A g, h \in Handlers :
        sameRequestURL(g, h) =>
            /\ hs[g].out.kind = hs[h].out.kind
            /\ hs[g].out.matched = hs[h].out.matched
            /\ hs[g].out.served = hs[h].out.served
            /\ hs[g].out.kind # "network" => hs[g].out = hs[h].out

\* a page load and a form submission with credentials, to one URL, were
\* both served the same recording
C38_Witness ==
    \E g, h \in Handlers :
        /\ sameRequestURL(g, h)
        /\ hs[g].req.method = "GET" /\ hs[g].req.body = ""
        /\ hs[h].req.method = "POST" /\ hs[h].req.body = CredsB
        /\ hs[g].out.kind = "recorded"
        /\ hs[g].out.payload = hs[h].out.payload

\* C39: the Transaction made by ToTransaction has Type CREDIT exactly when
\* the raw amount is strictly positive and Type DEBIT otherwise, whatever
\* the other fields of the row; a raw amount of zero gives a DEBIT of
\* amount 0.
C39_CreditIffPositive ==
    converted =>
        LET raw == pin.doc.Importe
            txn == pret.list[1]
        IN  /\ txn.Type = "CREDIT" <=> raw > 0
            /\ txn.Type = "DEBIT" <=> raw <= 0
            /\ raw = 0 => txn.Amount = 0

\* a row with a raw amount of zero was converted to a DEBIT of amount 0
C39_Witness ==
    /\ converted
    /\ pin.doc.Importe = 0
    /\ pret.list[1].Type = "DEBIT"
    /\ pret.list[1].Amount = 0

isShadowContainer(n) == n.data.kind = "shadow-root"
isIframeContainer(n) == n.data.kind = "captured-iframe" /\ n.data.error = ""

RECURSIVE shadowContainersIn(_)
\* how many shadow markers the markup of these nodes holds
shadowContainersIn(nodes) ==
    IF nodes = <<>> THEN 0
    ELSE (IF isShadowContainer(Head(nodes)) THEN 1 ELSE 0)
         + shadowContainersIn(Head(nodes).childNodes)
         + shadowContainersIn(Tail(nodes))

RECURSIVE iframeContainersIn(_)
\* how many containers of inlined iframes the markup of these nodes holds
iframeContainersIn(nodes) ==
    IF nodes = <<>> THEN 0
    ELSE (IF isIframeContainer(Head(nodes)) THEN 1 ELSE 0)
         + iframeContainersIn(Head(nodes).childNodes)
         + iframeContainersIn(Tail(nodes))

RECURSIVE errorMarkersIn(_)
\* how many error markers the markup of these nodes holds
errorMarkersIn(nodes) ==
    IF nodes = <<>> THEN 0
    ELSE (IF isErrorMarker(Head(nodes)) THEN 1 ELSE 0)
         + errorMarkersIn(Head(nodes).childNodes)
         + errorMarkersIn(Tail(nodes))

\* the markers of its own shadow root that a host carries
ownMarkers(host) ==
    {i \in 1..Len(host.childNodes) : isShadowMarker(host.childNodes[i], host)}

\* C40: in the result of a pass over a page not flattened before,
\* shadowCount is the number of shadow markers the pass appended and
\* iframeCount the number of iframes it inlined, each found once in the
\* returned markup; no host carries two markers of its shadow root, and an
\* iframe replaced by an error marker is not counted.
C40_CountsAreMarkers ==
    flattened =>
        /\ fret.shadowCount = shadowContainersIn(<<fret.html>>)
        /\ fret.iframeCount = iframeContainersIn(<<fret.html>>)
        /\ \A n \in nodesOf(<<fret.dom>>) :
               isHost(n) => Cardinality(ownMarkers(n)) <= 1
        /\ fret.shadowCount + fret.iframeCount
              + errorMarkersIn(<<fret.html>>) <= fret.history.calls

\* an iframe that cannot be read is followed by an iframe holding a shadow
\* host: one error marker, one inlined iframe and one shadow marker
C40_Witness ==
    /\ flattened
    /\ errorMarkersIn(<<fret.html>>) = 1
    /\ fret.iframeCount = 1
    /\ fret.shadowCount = 1

====
